---------------------------- MODULE Spec2Model ----------------------------
(***************************************************************************)
(* Model of the vertical refinement loops of mpp_dspy:                     *)
(*   MPPBundleOptimizer.refine      (mpp_optimizer.py)                      *)
(*   MPPAdapterPipeline.build_bundle (mpp_adapter.py)                       *)
(*   MPPAdapterPipeline.execute      (mpp_adapter.py)                       *)
(* One call runs at a time (the library is synchronous).  A call is a      *)
(* Call action (the code before the loop), one Iteration action per pass   *)
(* of the loop body, and an Exhausted action (the code after the loop).    *)
(* The architect, executor and QA generators are the environment: every    *)
(* iteration draws their outcome from a small set.                         *)
(***************************************************************************)
EXTENDS Integers, Sequences, FiniteSets

VARIABLES
    op,                 \* which method is running: "idle", "refine", "build_bundle", "execute"
    pc,                 \* "idle", "loop", "returned", "raised"
    max_iters,          \* the call's iteration cap
    i,                  \* loop passes started so far (the code's i + 1 inside a pass)
    last_bundle,        \* refine / build_bundle local
    last_valid_bundle,  \* refine local
    last_error,         \* refine local
    steps,              \* list[VerticalStep] of the call
    prompts,            \* the prompts the architect was invoked with, in order
    result,             \* the BundleResult / ExecutionResult returned, or NoResult
    raised,             \* the exception that left the call, or None
    open_world,         \* execute parameter
    expect_reasoning,   \* execute parameter
    has_qa,             \* self.qa is not None
    has_feedback_cb,    \* self.set_executor_feedback is not None
    bundle,             \* execute: the normalized bundle
    last_response,      \* execute local
    last_comparable,    \* execute local
    qa_result,          \* execute local
    qa_passed,          \* execute local
    reasoning,          \* execute local
    stable,             \* execute local
    iterations,         \* execute local
    final_response,     \* execute local
    qa_feedback,        \* execute local
    executor_calls,     \* number of executor invocations of the call
    qa_calls,           \* number of QA invocations of the call
    feedbacks,          \* the values delivered to set_executor_feedback, in order
    gen_log,            \* what each generator invocation of the call did, in order
    arg_bundle,         \* validate_mpp_bundle: the bundle it was called with
    arg_faults,         \* validate_mpp_bundle: how that bundle departs from a valid one
    validation,         \* validate_mpp_bundle: the exception it raised, or Valid
    source_bundle,      \* normalize_mpp_bundle: the bundle whose fields were serialized
    normalized,         \* normalize_mpp_bundle: the bundle it returned
    responses,          \* _normalize_response_for_stability: the texts it was applied to
    comparables,        \* _normalize_response_for_stability: what it returned for them
    template_arg,       \* template_tokens: the template the functions were applied to
    replacements_arg,   \* template_tokens: the replacements given to render
    listed,             \* template_tokens: what list_mutable_blocks did
    extracted,          \* template_tokens: what extract_mutable_blocks did
    rendered_text,      \* template_tokens: what render_mutable_template did
    rerendered,         \* template_tokens: render of the template with its own blocks
    metric,             \* TraceCostMetric: the weights of the metric
    metric_traces,      \* TraceCostMetric.score: the traces it was given
    metric_score,       \* TraceCostMetric.score: what it returned
    base_template,      \* longitudinal refine local
    maximize,           \* MPPLongitudinalRefiner.maximize
    mutate_accepts_traces,  \* MPPLongitudinalRefiner._mutate_accepts_traces
    current_blocks,     \* longitudinal refine local
    current_traces,     \* longitudinal refine local
    best_template,      \* longitudinal refine local
    best_score,         \* longitudinal refine local
    best_blocks,        \* longitudinal refine local
    history,            \* longitudinal refine local: list[LongitudinalStep]
    mutate_log,         \* the arguments of each mutate_function call, in order
    score_log,          \* the arguments and outcome of each _score call, in order
    bundle_iters,       \* forward local
    executor_iters,     \* forward local
    previous_bundle,    \* forward local
    feedback_trace,     \* forward local
    feedback,           \* forward local
    bundle_result,      \* forward local
    exec_result,        \* forward local
    architect_cycles,   \* forward local
    bundle_refinements_total,    \* forward local
    executor_refinements_total,  \* forward local
    cycles,             \* forward: what each cycle called refine with and what came back
    allowed_keys,       \* DefaultLongitudinalMutator.allowed_keys
    mutator_blocks,     \* refine with the default policy: current_blocks
    mutator_calls,      \* each call of the default policy, in order
    models_to_try,      \* create_chat_completion local
    model_index,        \* create_chat_completion: position of candidate in models_to_try
    retries,            \* _post argument
    base_delay,         \* _post argument
    attempt,            \* _post local
    last_forbidden,     \* create_chat_completion local: last_error
    post_log,           \* every attempt of the call, in order
    completion          \* what create_chat_completion returned or raised

vars == <<op, pc, max_iters, i, last_bundle, last_valid_bundle, last_error, steps,
          prompts, result, raised, open_world, expect_reasoning, has_qa,
          has_feedback_cb, bundle, last_response, last_comparable, qa_result,
          qa_passed, reasoning, stable, iterations, final_response, qa_feedback,
          executor_calls, qa_calls, feedbacks, gen_log, responses, comparables,
          arg_bundle, arg_faults, validation, source_bundle, normalized,
          template_arg, replacements_arg, listed, extracted, rendered_text, rerendered,
          metric, metric_traces, metric_score,
          base_template, maximize,
          mutate_accepts_traces, current_blocks, current_traces, best_template,
          best_score, best_blocks, history, mutate_log, score_log, bundle_iters,
          executor_iters, previous_bundle, feedback_trace, feedback, bundle_result,
          exec_result, architect_cycles, bundle_refinements_total,
          executor_refinements_total, cycles, allowed_keys, mutator_blocks,
          mutator_calls, models_to_try, model_index, retries, base_delay, attempt,
          last_forbidden, post_log, completion>>

bundleVars == <<last_bundle, last_valid_bundle, last_error, prompts>>

executeVars == <<open_world, expect_reasoning, has_qa, has_feedback_cb, bundle,
                 last_response, last_comparable, qa_result, qa_passed, reasoning,
                 stable, iterations, final_response, qa_feedback, executor_calls,
                 qa_calls, feedbacks>>

\* The locals of the three loops: everything but op, pc and the ghost records.
loopLocals == <<max_iters, i, steps, result, raised, gen_log, bundleVars, executeVars>>

normalizeVars == <<responses, comparables>>

\* The state of the operations that are not one of the three loops.
validatorVars == <<arg_bundle, arg_faults, validation, source_bundle, normalized>>

longitudinalVars == <<base_template, maximize, mutate_accepts_traces, current_blocks,
                      current_traces, best_template, best_score, best_blocks, history,
                      mutate_log, score_log>>

forwardVars == <<bundle_iters, executor_iters, previous_bundle, feedback_trace, feedback,
                 bundle_result, exec_result, architect_cycles, bundle_refinements_total,
                 executor_refinements_total, cycles>>

\* The state of the template functions.
templateVars == <<template_arg, replacements_arg, listed, extracted, rendered_text,
                  rerendered>>

\* The state of the default metric.
metricVars == <<metric, metric_traces, metric_score>>

\* The state of the default mutation policy.
mutatorVars == <<allowed_keys, mutator_blocks, mutator_calls>>

\* The state of the text-generation backend client.
backendVars == <<models_to_try, model_index, retries, base_delay, attempt, last_forbidden,
                 post_log, completion>>

\* The state of the benchmark-side operations.
benchVars == <<mutatorVars, backendVars>>

\* The state of the operations that are pure functions of their arguments.
pureVars == <<templateVars, metricVars, benchVars>>

\* Everything the benchmark-side operations leave alone.
coreVars == <<max_iters, i, steps, result, raised, gen_log, bundleVars, executeVars,
              normalizeVars, validatorVars, longitudinalVars, forwardVars, templateVars,
              metricVars>>

nonLoopVars == <<normalizeVars, validatorVars, longitudinalVars, forwardVars, pureVars>>

\* What a longitudinal refine leaves alone.
verticalVars == <<steps, gen_log, bundleVars, executeVars, normalizeVars, validatorVars,
                  forwardVars, pureVars>>

\* The execute locals other than open_world.
executeLocals == <<expect_reasoning, has_qa, has_feedback_cb, bundle, last_response,
                   last_comparable, qa_result, qa_passed, reasoning, stable, iterations,
                   final_response, qa_feedback, executor_calls, qa_calls, feedbacks>>

\* What forward leaves alone.
forwardUntouched == <<max_iters, i, steps, gen_log, bundleVars, executeLocals,
                      normalizeVars, validatorVars, longitudinalVars, pureVars>>

-----------------------------------------------------------------------------
(* Bounds *)

\* Largest iteration cap a call is given.
MaxIters == 3

\* Largest number of faults a bundle handed to the validator has.
MaxFaults == 2

\* Largest architect-cycle cap of a forward call.
MaxCycles == 2

\* Largest number of fragments a template given to the template functions is
\* put together from.
MaxPieces == 3

\* Largest refinement count a trace given to the metric has.
MaxRefinements == 2

\* The most passes of a refine with the default mutation policy.
MaxMutations == 2

-----------------------------------------------------------------------------
(* Values *)

\* Python's None, for the optional strings and booleans.
None == "None"

\* Optional[bool] as text, so that it compares with None.
Bool(b) == IF b THEN "True" ELSE "False"

\* Bundle contents the architect can emit.  A bundle is [id, enc]: id names the
\* content, enc says how the specification and payload fields are carried:
\* "map" (mappings), "json" (JSON text of the mappings), "str" (other text).
ValidIds == {1, 2}
InvalidIds == {3}
BundleIds == ValidIds \cup InvalidIds

RawBundles == [id : BundleIds, enc : {"map", "json"}] \cup {[id |-> 1, enc |-> "str"]}

\* previous_bundle is None
NoBundle == [id |-> 0, enc |-> "None"]

\* the empty dict {}
EmptyBundle == [id |-> 0, enc |-> "map"]

UserGoal == "goal"

\* normalize_mpp_bundle: JSON text in the specification / payload fields is decoded
\* to the mapping it encodes; mappings and undecodable text are left as they are.
normalize_mpp_bundle(b) ==
    IF b.enc = "json" THEN [b EXCEPT !.enc = "map"] ELSE b

\* validate_mpp_bundle(bundle): "ok", or the text of the exception it raises.
\* _require_keys, then _require_mapping, then the structural checks of
\* validate_derivative_spec / validate_payload (held by the contents in ValidIds).
ValidateStructure(b) ==
    IF b.id \in ValidIds THEN "ok"
    ELSE "ValueError: payload includes unknown tags: $unknown"

validate_bundle(b) ==
    IF b.id = 0
    THEN "ValueError: bundle is missing required keys: meta_protocol_version"
    ELSE IF b.enc # "map"
    THEN "TypeError: bundle.derivative_protocol_specification must be a mapping"
    ELSE ValidateStructure(b)

IsValid(b) == validate_bundle(b) = "ok"

\* mpp_optimizer._refined_goal: the prompt parts.  The previous bundle is left out
\* when it is None, the feedback when error_message is None or empty.
RefinedGoalOpt(user_goal, previousBundle, error_message) ==
    [user_goal |-> user_goal,
     previous_bundle |-> previousBundle,
     feedback |-> IF error_message \in {None, ""} THEN None ELSE error_message]

\* mpp_adapter._refined_goal: the goal alone, or the goal and the previous bundle.
RefinedGoalAdapter(user_goal, previousBundle) ==
    [user_goal |-> user_goal, previous_bundle |-> previousBundle, feedback |-> None]

\* VerticalStep
VerticalStep(iteration, output, qaResult, qaPassed, error) ==
    [iteration |-> iteration, output |-> output, qa_result |-> qaResult,
     qa_passed |-> qaPassed, error |-> error]

NoQA == [verdict |-> None, issues |-> <<>>, set |-> FALSE]

NoResult == [kind |-> "None"]

BundleResult(b, n, st, ss) ==
    [kind |-> "BundleResult", bundle |-> b, iterations |-> n, stable |-> st, steps |-> ss]

\* What one architect invocation does: raise, return a prediction that lacks one of
\* the three fields, or return a prediction carrying a bundle.
ArchitectOutcomes ==
    {[kind |-> "raise", bundle |-> NoBundle], [kind |-> "missing", bundle |-> NoBundle]}
    \cup {[kind |-> "ok", bundle |-> b] : b \in RawBundles}

ArchitectErrorText == "RuntimeError: architect failed"

\* One generator invocation, as the environment performed it: which generator, and
\* the outcome it produced.
Invocation(who, out) == [who |-> who, kind |-> out.kind, out |-> out]

\* Faulty variant of GetField: a lenient read (.get), an absent field reads as None.
GetFieldLenient(kind) == "ok"

\* GetField(prediction, name) over the fields a stage requires: "ok" when the
\* prediction has them, "KeyError" (raised) when one is absent.
GetField(kind) == IF kind = "missing" THEN "KeyError" ELSE "ok"


\* Exceptions that leave a call: the Python type, which code raised it, the text.
Exception(type, origin, text) == [type |-> type, origin |-> origin, text |-> text]

NoError == Exception(None, None, None)

\* refine, lines 146-151
RefineError(detail) ==
    Exception("ValueError", "refine",
              IF detail \in {None, ""} THEN "Unknown error." ELSE detail)

\* _get_field, lines 52-59
MissingFieldError(who) == Exception("KeyError", who, "Prediction missing field")

\* an exception raised by a generator itself
GeneratorError(who) == Exception("RuntimeError", who, "generator failed")

-----------------------------------------------------------------------------
(* MPPAdapterPipeline.execute: values *)

\* A response text, by its structure.  none: the Python value is None.  pad: it has
\* leading / trailing whitespace.  fence: it is wrapped in a ``` code fence.  json:
\* the text inside parses as a JSON object, whose members are the <<key, value>>
\* pairs and whose keys appear in the text in the given order.  Otherwise it is
\* the words, separated by runs of whitespace (wide) or by single spaces.
Response(pad, fence, json, order, members, words, wide) ==
    [pad |-> pad, fence |-> fence, json |-> json, order |-> order,
     members |-> members, words |-> words, wide |-> wide, none |-> FALSE]

\* no response yet (None)
NoResponse == [pad |-> FALSE, fence |-> FALSE, json |-> FALSE, order |-> <<>>,
               members |-> {}, words |-> <<>>, wide |-> FALSE, none |-> TRUE]

\* the empty string
EmptyResponse == Response(FALSE, FALSE, FALSE, <<>>, {}, <<>>, FALSE)

\* The keys responses use, in sorted order (json.dumps(sort_keys=True)).
SortedKeys == <<"final", "rationale", "reasoning">>

\* _strip_code_fences, lines 97-106
StripCodeFences(r) == [r EXCEPT !.pad = FALSE, !.fence = FALSE]

\* Faulty variant of DropReasoningFields: only the reasoning key is popped.
DropReasoningOnly(members) == {m \in members : m[1] # "reasoning"}

\* _drop_reasoning_fields, lines 109-115
DropReasoningFields(members) ==
    {m \in members : m[1] \notin {"reasoning", "rationale"}}

\* _normalize_response_for_stability, lines 118-135: the comparable text.
NormalizeResponseForStability(response) ==
    LET text == [response EXCEPT !.pad = FALSE]
        stripped == StripCodeFences(text)
    IN  IF text = EmptyResponse THEN text
        ELSE IF stripped.json
        THEN LET parsed == DropReasoningFields(stripped.members)
             IN  Response(FALSE, FALSE, TRUE,
                          SelectSeq(SortedKeys, LAMBDA k : \E m \in parsed : m[1] = k),
                          parsed, <<>>, FALSE)
        ELSE [stripped EXCEPT !.wide = FALSE]

\* The responses the executor can give.  RespA and RespB differ in key order, the
\* reasoning text, the fence and the padding; RespC differs in a remaining field.
RespA == Response(FALSE, FALSE, TRUE, <<"reasoning", "final">>,
                  {<<"reasoning", 1>>, <<"final", 1>>}, <<>>, FALSE)
RespB == Response(TRUE, TRUE, TRUE, <<"final", "reasoning">>,
                  {<<"final", 1>>, <<"reasoning", 2>>}, <<>>, FALSE)
RespC == Response(FALSE, FALSE, TRUE, <<"final">>, {<<"final", 2>>}, <<>>, FALSE)
RespD == Response(TRUE, FALSE, FALSE, <<>>, {}, <<"good", "output">>, TRUE)

\* The JSON objects a response can carry: at most one value per key.
JsonObjects ==
    {ms \in SUBSET {<<"final", 1>>, <<"final", 2>>, <<"reasoning", 1>>,
                    <<"reasoning", 2>>, <<"rationale", 1>>} :
        \A a \in ms, b \in ms : a[1] = b[1] => a = b}

Reverse(seq) == [k \in 1..Len(seq) |-> seq[Len(seq) + 1 - k]]

\* The texts of a JSON object: its keys written in sorted or in reverse order, the
\* text bare or padded and fenced.
JsonResponses ==
    {Response(wrapped, wrapped, TRUE,
              IF reversed THEN Reverse(SelectSeq(SortedKeys, LAMBDA k : \E m \in ms : m[1] = k))
              ELSE SelectSeq(SortedKeys, LAMBDA k : \E m \in ms : m[1] = k),
              ms, <<>>, FALSE) :
        ms \in JsonObjects, reversed \in BOOLEAN, wrapped \in BOOLEAN}

\* The texts _normalize_response_for_stability is applied to, in pairs.
StabilityResponses == JsonResponses \cup {RespD, EmptyResponse}

\* What one executor invocation does: raise, return a prediction without
\* final_response, or return final_response with its reasoning / rationale fields
\* (None when absent).
ExecutorPrediction(kind, response, reasoningField, rationaleField) ==
    [kind |-> kind, final_response |-> response, reasoning |-> reasoningField,
     rationale |-> rationaleField]

ExecutorOutcomes ==
    { ExecutorPrediction("raise", NoResponse, None, None),
      ExecutorPrediction("missing", NoResponse, None, None),
      ExecutorPrediction("ok", RespA, None, None),
      ExecutorPrediction("ok", RespB, "because", None),
      ExecutorPrediction("ok", RespC, None, None),
      ExecutorPrediction("ok", RespC, "  ", "why"),
      ExecutorPrediction("ok", RespD, "because", None),
      ExecutorPrediction("ok", RespA, "  ", None) }

\* str.strip() of the reasoning texts used
Strip(text) == IF text = "  " THEN "" ELSE text

\* Faulty variant of ExtractReasoning: the value is not stripped, so a blank
\* reasoning field counts as reasoning.
ExtractReasoningUnstripped(prediction) ==
    IF prediction.reasoning # None THEN prediction.reasoning
    ELSE IF prediction.rationale # None THEN prediction.rationale
    ELSE None

\* _extract_reasoning, lines 84-94: the first of reasoning, rationale that is
\* present and not blank.
ExtractReasoning(prediction) ==
    IF prediction.reasoning # None /\ Strip(prediction.reasoning) # ""
    THEN Strip(prediction.reasoning)
    ELSE IF prediction.rationale # None /\ Strip(prediction.rationale) # ""
    THEN Strip(prediction.rationale)
    ELSE None

\* A QA result {verdict, issues}; set = FALSE stands for None.
QAResult(verdict, issues) == [verdict |-> verdict, issues |-> issues, set |-> TRUE]

\* What one QA invocation does: raise, return a prediction without verdict or
\* issues, or return both.  The verdict None is a non-string verdict.
QAOutcomes ==
    { [kind |-> "raise", verdict |-> None, issues |-> <<>>],
      [kind |-> "missing", verdict |-> None, issues |-> <<>>],
      [kind |-> "ok", verdict |-> "pass", issues |-> <<>>],
      [kind |-> "ok", verdict |-> " PASS ", issues |-> <<>>],
      [kind |-> "ok", verdict |-> "fail", issues |-> <<"missing field">>],
      [kind |-> "ok", verdict |-> None, issues |-> <<"no verdict">>] }

\* verdict.strip().lower()
StripLower(verdict) == IF verdict = " PASS " THEN "pass" ELSE verdict

\* Faulty variant of QAPassedOf: the verdict compared as written, without
\* strip().lower().
QAPassedExact(qaResult) == qaResult.verdict = "pass"

\* _qa_passed, lines 73-75
QAPassedOf(qaResult) ==
    qaResult.verdict # None /\ StripLower(qaResult.verdict) = "pass"

\* The qa_feedback mapping of lines 251-255; set = FALSE stands for None.
Feedback(verdict, issues, previous_response) ==
    [verdict |-> verdict, issues |-> issues, previous_response |-> previous_response,
     set |-> TRUE]

NoFeedback == [verdict |-> None, issues |-> <<>>, previous_response |-> NoResponse,
               set |-> FALSE]

ExecutionResult(finalResponse, reason, n, st, qaResult, qaPassed, ss) ==
    [kind |-> "ExecutionResult", final_response |-> finalResponse, reasoning |-> reason,
     iterations |-> n, stable |-> st, qa_result |-> qaResult, qa_passed |-> qaPassed,
     steps |-> ss]

\* The bundles execute is called with: a valid one as mappings and as JSON text,
\* and an invalid one.
ExecuteBundles == {[id |-> 1, enc |-> "map"], [id |-> 1, enc |-> "json"],
                   [id |-> 3, enc |-> "map"]}

-----------------------------------------------------------------------------
(* validations.py: values *)

\* REQUIRED_BUNDLE_FIELDS, lines 6-10
REQUIRED_BUNDLE_FIELDS ==
    {"meta_protocol_version", "derivative_protocol_specification",
     "derivative_protocol_payload"}

\* REQUIRED_SPEC_FIELDS, lines 11-18
REQUIRED_SPEC_FIELDS ==
    {"protocol_name", "abstract", "tag_definition_schema", "core_tag_library",
     "processor_semantics", "guiding_principles"}

\* ALLOWED_SPEC_FIELDS, lines 19-23
ALLOWED_SPEC_FIELDS ==
    REQUIRED_SPEC_FIELDS \cup {"protocol_version", "payload_order", "processor_pipeline"}

\* A value read as a list of strings: type is "list" (a list of strings), "mixed"
\* (a list with a non-string item), "str" (a bare string) or None (absent / null);
\* items are its strings in order.
ListValue(type, items) == [type |-> type, items |-> items]

NoList == ListValue(None, <<>>)

\* One core_tag_library entry: the tag, the type of its definition ("map" or
\* "str"), the keys the definition has, the value under "required" ("True",
\* "False", or "yes" for a non-boolean) and the value under "processor" (None
\* when the key is absent).
TagDef(name, type, fields, required, processor) ==
    [name |-> name, type |-> type, fields |-> fields, required |-> required,
     processor |-> processor]

\* A derivative_protocol_specification mapping.  keys: the required and unknown
\* keys it has; the three optional keys are read with .get and are None when
\* absent.  library.tags is core_tag_library in iteration order.
SpecValue(keys, schema, library, semantics, principles, version, order, pipeline) ==
    [keys |-> keys, schema |-> schema, library |-> library, semantics |-> semantics,
     principles |-> principles, protocol_version |-> version,
     payload_order |-> order, processor_pipeline |-> pipeline]

\* A bundle as validate_mpp_bundle reads it: the top-level keys it has, the types
\* of the three values, the specification, and the payload's keys in iteration
\* order (payload values are never read).
BundleValue(keys, version, specType, payloadType, spec, payload) ==
    [keys |-> keys, version |-> version, spec_type |-> specType,
     payload_type |-> payloadType, spec |-> spec, payload |-> payload]

\* fixtures/bundle_fixtures.py: mpp_bundle_minimal
MinimalBundle ==
    BundleValue(REQUIRED_BUNDLE_FIELDS, "str", "map", "map",
        SpecValue(REQUIRED_SPEC_FIELDS,
                  ListValue("list", <<"description">>),
                  [type |-> "map",
                   tags |-> <<TagDef("$task", "map", {"description"}, "True", None)>>],
                  [type |-> "map", names |-> {}],
                  "map", None, NoList, NoList),
        <<"$task">>)

\* The minimal bundle with an optional tag the payload leaves out.
OptionalTagBundle ==
    [MinimalBundle EXCEPT
        !.spec.library.tags =
            <<TagDef("$task", "map", {"description"}, "True", None),
              TagDef("$ctx", "map", {"description", "required"}, "False", None)>>]

\* A bundle that uses payload_order, processors and processor_pipeline.
OrderedBundle ==
    BundleValue(REQUIRED_BUNDLE_FIELDS, "str", "map", "map",
        SpecValue(REQUIRED_SPEC_FIELDS,
                  ListValue("list", <<"description", "processor">>),
                  [type |-> "map",
                   tags |-> <<TagDef("$task", "map", {"description", "processor"},
                                     "True", "p1"),
                              TagDef("$ctx", "map",
                                     {"description", "processor", "required"},
                                     "False", "p2")>>],
                  [type |-> "map", names |-> {"p1", "p2", "p3"}],
                  "map", "str",
                  ListValue("list", <<"$task", "$ctx">>),
                  ListValue("list", <<"p1", "p2">>)),
        <<"$task", "$ctx">>)

BaseBundles == {MinimalBundle, OptionalTagBundle, OrderedBundle}

\* The ways a bundle is changed before it is validated, in the order applied.
Faults ==
    <<"no_payload_key", "no_version_key", "version_int", "spec_text", "payload_list",
      "spec_no_abstract", "spec_extra_key", "schema_text", "schema_no_processor",
      "library_list",
      "semantics_list", "principles_text", "tag_text", "required_text",
      "tag_no_description", "tag_no_processor", "undefined_processor",
      "protocol_version_int",
      "order_text", "order_removed", "order_duplicate", "order_unknown_tag",
      "order_drop_optional", "pipeline_mixed", "pipeline_empty", "pipeline_duplicate",
      "pipeline_unknown", "pipeline_reversed", "pipeline_extra", "payload_unknown",
      "payload_alien", "payload_drop_required", "payload_drop_optional",
      "payload_reversed">>

Without(seq, x) == SelectSeq(seq, LAMBDA e : e # x)

ApplyFault(b, f) ==
    CASE f = "no_payload_key" ->
            [b EXCEPT !.keys = @ \ {"derivative_protocol_payload"}]
      [] f = "no_version_key" -> [b EXCEPT !.keys = @ \ {"meta_protocol_version"}]
      [] f = "version_int" -> [b EXCEPT !.version = "int"]
      [] f = "spec_text" -> [b EXCEPT !.spec_type = "str"]
      [] f = "payload_list" -> [b EXCEPT !.payload_type = "list"]
      [] f = "spec_no_abstract" -> [b EXCEPT !.spec.keys = @ \ {"abstract"}]
      [] f = "spec_extra_key" -> [b EXCEPT !.spec.keys = @ \cup {"notes"}]
      [] f = "schema_text" -> [b EXCEPT !.spec.schema.type = "str"]
      [] f = "schema_no_processor" ->
            [b EXCEPT !.spec.schema.items = Without(@, "processor")]
      [] f = "library_list" -> [b EXCEPT !.spec.library.type = "list"]
      [] f = "semantics_list" -> [b EXCEPT !.spec.semantics.type = "list"]
      [] f = "principles_text" -> [b EXCEPT !.spec.principles = "str"]
      [] f = "tag_text" -> [b EXCEPT !.spec.library.tags[1].type = "str"]
      [] f = "required_text" ->
            [b EXCEPT !.spec.library.tags[1].required = "yes",
                      !.spec.library.tags[1].fields = @ \cup {"required"}]
      [] f = "tag_no_description" ->
            [b EXCEPT !.spec.library.tags[1].fields = @ \ {"description"}]
      [] f = "tag_no_processor" ->
            [b EXCEPT !.spec.library.tags[1].processor = None,
                      !.spec.library.tags[1].fields = @ \ {"processor"}]
      [] f = "undefined_processor" ->
            [b EXCEPT !.spec.library.tags[1].processor = "p9",
                      !.spec.library.tags[1].fields = @ \cup {"processor"}]
      [] f = "protocol_version_int" -> [b EXCEPT !.spec.protocol_version = "int"]
      [] f = "order_text" -> [b EXCEPT !.spec.payload_order.type = "str"]
      [] f = "order_removed" -> [b EXCEPT !.spec.payload_order = NoList]
      [] f = "order_duplicate" ->
            [b EXCEPT !.spec.payload_order.items =
                          IF @ = <<>> THEN @ ELSE Append(@, @[1])]
      [] f = "order_unknown_tag" ->
            [b EXCEPT !.spec.payload_order.items =
                          IF b.spec.payload_order.type = None THEN @
                          ELSE Append(@, "$ghost")]
      [] f = "order_drop_optional" ->
            [b EXCEPT !.spec.payload_order.items = Without(@, "$ctx")]
      [] f = "pipeline_mixed" -> [b EXCEPT !.spec.processor_pipeline.type = "mixed"]
      [] f = "pipeline_empty" ->
            [b EXCEPT !.spec.processor_pipeline = ListValue("list", <<>>)]
      [] f = "pipeline_duplicate" ->
            [b EXCEPT !.spec.processor_pipeline.items =
                          IF @ = <<>> THEN @ ELSE Append(@, @[1])]
      [] f = "pipeline_unknown" ->
            [b EXCEPT !.spec.processor_pipeline.items =
                          IF b.spec.processor_pipeline.type = None THEN @
                          ELSE Append(@, "p9")]
      [] f = "pipeline_reversed" ->
            [b EXCEPT !.spec.processor_pipeline.items =
                          [k \in 1..Len(@) |-> @[Len(@) + 1 - k]]]
      [] f = "pipeline_extra" ->
            [b EXCEPT !.spec.processor_pipeline.items =
                          IF b.spec.processor_pipeline.type = None THEN @
                          ELSE Append(@, "p3")]
      [] f = "payload_unknown" -> [b EXCEPT !.payload = Append(@, "$unknown")]
      [] f = "payload_alien" -> [b EXCEPT !.payload = <<"$alien">> \o @]
      [] f = "payload_drop_required" -> [b EXCEPT !.payload = Without(@, "$task")]
      [] f = "payload_drop_optional" -> [b EXCEPT !.payload = Without(@, "$ctx")]
      [] f = "payload_reversed" ->
            [b EXCEPT !.payload = [k \in 1..Len(@) |-> @[Len(@) + 1 - k]]]

\* The sets of at most n faults.
RECURSIVE FaultSets(_)
FaultSets(n) ==
    IF n = 0 THEN {{}}
    ELSE FaultSets(n - 1)
            \cup {fs \cup {Faults[k]} : fs \in FaultSets(n - 1), k \in 1..Len(Faults)}

\* The bundle b with the faults of fs applied, those of Faults[k..] first to last.
RECURSIVE ApplyFaults(_, _, _)
ApplyFaults(b, fs, k) ==
    IF k > Len(Faults) THEN b
    ELSE ApplyFaults(IF Faults[k] \in fs THEN ApplyFault(b, Faults[k]) ELSE b, fs, k + 1)

\* The outcome of a validation: the exception raised (its Python type, the rule
\* its message states, the label or tag the message is about, and the names the
\* message lists), or Valid.
ValidationError(type, rule, subject, names) ==
    [type |-> type, rule |-> rule, subject |-> subject, names |-> names]

Valid == ValidationError(None, "ok", "", {})

\* no validation has run
Unvalidated == ValidationError(None, "not run", "", {})

SeqToSet(seq) == {seq[k] : k \in 1..Len(seq)}

HasDuplicates(seq) == Cardinality(SeqToSet(seq)) # Len(seq)

\* _is_string_list, lines 206-209
IsStringList(value) == value.type = "list"

\* _require_mapping, lines 191-194
RequireMapping(type, label) ==
    IF type = "map" THEN Valid
    ELSE ValidationError("TypeError", "must be a mapping", label, {})

\* _require_keys, lines 197-203
RequireKeys(keys, required, label) ==
    IF required \subseteq keys THEN Valid
    ELSE ValidationError("ValueError", "is missing required keys", label,
                         required \ keys)

\* set(core_tag_library.keys())
LibraryTags(spec) == {spec.library.tags[k].name : k \in 1..Len(spec.library.tags)}

\* tag_map.get("required", True), as the text of the value
RequiredValue(tag) == IF "required" \in tag.fields THEN tag.required ELSE "True"

-----------------------------------------------------------------------------
(* validations.py: validate_derivative_spec *)

\* lines 72-87: the checks of one core_tag_library entry, in order.
TagError(spec, tag) ==
    IF tag.type # "map"
    THEN ValidationError("TypeError", "must be a mapping", tag.name, {})
    ELSE IF RequiredValue(tag) \notin {"True", "False"}
    THEN ValidationError("TypeError", "required must be a boolean", tag.name, {})
    ELSE IF ~(SeqToSet(spec.schema.items) \subseteq tag.fields)
    THEN ValidationError("ValueError", "tag is missing required fields", tag.name,
                         SeqToSet(spec.schema.items) \ tag.fields)
    ELSE IF "processor" \in SeqToSet(spec.schema.items)
            /\ tag.processor \notin spec.semantics.names
    THEN ValidationError("ValueError", "tag references undefined processor", tag.name,
                         {tag.processor})
    ELSE Valid

\* lines 72-87: the loop over core_tag_library.items(), from entry k on; the first
\* entry with an error decides.
RECURSIVE TagErrors(_, _)
TagErrors(spec, k) ==
    IF k > Len(spec.library.tags) THEN Valid
    ELSE IF TagError(spec, spec.library.tags[k]) # Valid
    THEN TagError(spec, spec.library.tags[k])
    ELSE TagErrors(spec, k + 1)

\* lines 93-102
PayloadOrderSpecError(spec) ==
    IF spec.payload_order.type = None THEN Valid
    ELSE IF ~IsStringList(spec.payload_order)
    THEN ValidationError("TypeError", "payload_order must be an array of strings",
                         "payload_order", {})
    ELSE IF HasDuplicates(spec.payload_order.items)
    THEN ValidationError("ValueError", "payload_order must not contain duplicate entries",
                         "payload_order", {})
    ELSE IF ~(SeqToSet(spec.payload_order.items) \subseteq LibraryTags(spec))
    THEN ValidationError("ValueError", "payload_order includes unknown tags",
                         "payload_order",
                         SeqToSet(spec.payload_order.items) \ LibraryTags(spec))
    ELSE Valid

\* lines 104-121
ProcessorPipelineSpecError(spec) ==
    IF spec.processor_pipeline.type = None THEN Valid
    ELSE IF ~IsStringList(spec.processor_pipeline)
    THEN ValidationError("TypeError", "processor_pipeline must be an array of strings",
                         "processor_pipeline", {})
    ELSE IF spec.payload_order.type = None
    THEN ValidationError("ValueError", "processor_pipeline requires payload_order",
                         "processor_pipeline", {})
    ELSE IF HasDuplicates(spec.processor_pipeline.items)
    THEN ValidationError("ValueError",
                         "processor_pipeline must not contain duplicate entries",
                         "processor_pipeline", {})
    ELSE IF ~(SeqToSet(spec.processor_pipeline.items) \subseteq spec.semantics.names)
    THEN ValidationError("ValueError", "processor_pipeline includes unknown processors",
                         "processor_pipeline",
                         SeqToSet(spec.processor_pipeline.items) \ spec.semantics.names)
    ELSE Valid

\* validate_derivative_spec, lines 44-121
validate_derivative_spec(spec) ==
    IF RequireKeys(spec.keys, REQUIRED_SPEC_FIELDS,
                   "derivative_protocol_specification") # Valid
    THEN RequireKeys(spec.keys, REQUIRED_SPEC_FIELDS, "derivative_protocol_specification")
    ELSE IF spec.keys \ ALLOWED_SPEC_FIELDS # {}
    THEN ValidationError("ValueError", "has unknown keys",
                         "derivative_protocol_specification",
                         spec.keys \ ALLOWED_SPEC_FIELDS)
    ELSE IF ~IsStringList(spec.schema)
    THEN ValidationError("TypeError", "tag_definition_schema must be an array of strings",
                         "tag_definition_schema", {})
    ELSE IF spec.library.type # "map"
    THEN RequireMapping(spec.library.type,
                        "derivative_protocol_specification.core_tag_library")
    ELSE IF spec.semantics.type # "map"
    THEN RequireMapping(spec.semantics.type,
                        "derivative_protocol_specification.processor_semantics")
    ELSE IF spec.principles # "map"
    THEN RequireMapping(spec.principles,
                        "derivative_protocol_specification.guiding_principles")
    ELSE IF TagErrors(spec, 1) # Valid
    THEN TagErrors(spec, 1)
    ELSE IF spec.protocol_version \notin {None, "str"}
    THEN ValidationError("TypeError", "protocol_version must be a string",
                         "protocol_version", {})
    ELSE IF PayloadOrderSpecError(spec) # Valid
    THEN PayloadOrderSpecError(spec)
    ELSE ProcessorPipelineSpecError(spec)

-----------------------------------------------------------------------------
(* validations.py: validate_payload *)

\* Faulty variant of PayloadUnknownTags: the first unknown key only.
PayloadUnknownTagsFirst(spec, payload) ==
    LET unknown == SelectSeq(payload, LAMBDA t : t \notin LibraryTags(spec))
    IN  IF unknown = <<>> THEN {} ELSE {unknown[1]}

\* line 129: unknown_tags
PayloadUnknownTags(spec, payload) == SeqToSet(payload) \ LibraryTags(spec)

\* Faulty variant of PayloadOrderError: the key sets are compared, the sequence
\* (line 144) is not.
PayloadOrderErrorSetsOnly(spec, payload) ==
    IF spec.payload_order.type = None THEN Valid
    ELSE IF SeqToSet(payload) \ SeqToSet(spec.payload_order.items) # {}
    THEN ValidationError("ValueError", "payload_order missing payload tags", "payload",
                         SeqToSet(payload) \ SeqToSet(spec.payload_order.items))
    ELSE IF SeqToSet(spec.payload_order.items) \ SeqToSet(payload) # {}
    THEN ValidationError("ValueError", "payload_order includes tags not in payload",
                         "payload", SeqToSet(spec.payload_order.items) \ SeqToSet(payload))
    ELSE Valid

\* lines 134-145
PayloadOrderError(spec, payload) ==
    IF spec.payload_order.type = None THEN Valid
    ELSE IF SeqToSet(payload) \ SeqToSet(spec.payload_order.items) # {}
    THEN ValidationError("ValueError", "payload_order missing payload tags", "payload",
                         SeqToSet(payload) \ SeqToSet(spec.payload_order.items))
    ELSE IF SeqToSet(spec.payload_order.items) \ SeqToSet(payload) # {}
    THEN ValidationError("ValueError", "payload_order includes tags not in payload",
                         "payload", SeqToSet(spec.payload_order.items) \ SeqToSet(payload))
    ELSE IF payload # spec.payload_order.items
    THEN ValidationError("ValueError",
                         "payload tags do not match payload_order sequence", "payload", {})
    ELSE Valid

\* core_tag_library.get(tag, {}).get("processor") when it is a string, else None
\* (lines 153-156).
ProcessorOfTag(spec, name) ==
    LET defs == SelectSeq(spec.library.tags, LAMBDA t : t.name = name)
    IN  IF defs = <<>> \/ defs[1].type # "map" THEN None
        ELSE defs[1].processor

\* lines 150-159: processors_in_order over the first k payload keys: each
\* processor at its first use.
RECURSIVE ProcessorsInOrder(_, _, _)
ProcessorsInOrder(spec, payload, k) ==
    IF k = 0 THEN <<>>
    ELSE LET before == ProcessorsInOrder(spec, payload, k - 1)
             processor == ProcessorOfTag(spec, payload[k])
         IN  IF processor = None \/ processor \in SeqToSet(before) THEN before
             ELSE Append(before, processor)

\* lines 147-176
ProcessorPipelineError(spec, payload) ==
    LET schema == IF spec.schema.type = None THEN <<>> ELSE spec.schema.items
        inOrder == ProcessorsInOrder(spec, payload, Len(payload))
        used == SeqToSet(inOrder)
        pipeline == spec.processor_pipeline.items
    IN  IF spec.processor_pipeline.type = None \/ "processor" \notin SeqToSet(schema)
        THEN Valid
        ELSE IF used \ SeqToSet(pipeline) # {}
        THEN ValidationError("ValueError",
                             "processor_pipeline missing processors used by payload",
                             "payload", used \ SeqToSet(pipeline))
        ELSE IF SeqToSet(pipeline) \ used # {}
        THEN ValidationError("ValueError",
                             "processor_pipeline includes processors not used by payload",
                             "payload", SeqToSet(pipeline) \ used)
        ELSE IF spec.payload_order.type # None /\ pipeline # inOrder
        THEN ValidationError("ValueError",
                             "processor_pipeline order does not match payload order",
                             "payload", {})
        ELSE Valid

\* line 182: the first library entry absent from the payload whose definition is
\* not a mapping raises.
MissingRequiredTypeError(spec, payload) ==
    LET bad == SelectSeq(spec.library.tags,
                         LAMBDA t : t.name \notin SeqToSet(payload) /\ t.type # "map")
    IN  IF bad = <<>> THEN Valid
        ELSE ValidationError("TypeError", "must be a mapping", bad[1].name, {})

\* lines 178-188: the library tags that are absent from the payload and required
\* (required defaults to True; any truthy value counts).
MissingRequired(spec, payload) ==
    {spec.library.tags[k].name :
        k \in {j \in 1..Len(spec.library.tags) :
                  /\ spec.library.tags[j].name \notin SeqToSet(payload)
                  /\ RequiredValue(spec.library.tags[j]) # "False"}}

\* validate_payload, lines 124-188
validate_payload(spec, payload) ==
    IF spec.library.type # "map"
    THEN RequireMapping(spec.library.type,
                        "derivative_protocol_specification.core_tag_library")
    ELSE IF PayloadUnknownTags(spec, payload) # {}
    THEN ValidationError("ValueError", "payload includes unknown tags", "payload",
                         PayloadUnknownTags(spec, payload))
    ELSE IF PayloadOrderError(spec, payload) # Valid
    THEN PayloadOrderError(spec, payload)
    ELSE IF ProcessorPipelineError(spec, payload) # Valid
    THEN ProcessorPipelineError(spec, payload)
    ELSE IF MissingRequiredTypeError(spec, payload) # Valid
    THEN MissingRequiredTypeError(spec, payload)
    ELSE IF MissingRequired(spec, payload) # {}
    THEN ValidationError("ValueError", "payload missing required tags", "payload",
                         MissingRequired(spec, payload))
    ELSE Valid

-----------------------------------------------------------------------------
(* validations.py: validate_mpp_bundle *)

\* validate_mpp_bundle, lines 26-41
validate_mpp_bundle(b) ==
    IF RequireKeys(b.keys, REQUIRED_BUNDLE_FIELDS, "bundle") # Valid
    THEN RequireKeys(b.keys, REQUIRED_BUNDLE_FIELDS, "bundle")
    ELSE IF b.version # "str"
    THEN ValidationError("TypeError", "must be a string", "bundle.meta_protocol_version",
                         {})
    ELSE IF b.spec_type # "map"
    THEN RequireMapping(b.spec_type, "bundle.derivative_protocol_specification")
    ELSE IF b.payload_type # "map"
    THEN RequireMapping(b.payload_type, "bundle.derivative_protocol_payload")
    ELSE IF validate_derivative_spec(b.spec) # Valid
    THEN validate_derivative_spec(b.spec)
    ELSE validate_payload(b.spec, b.payload)

-----------------------------------------------------------------------------
(* validations.py: normalize_mpp_bundle *)

\* json.dumps of a field value, by the type of the value: the text "json_map"
\* encodes a mapping, "json_list" a list and "json_str" a string.  The content
\* the text encodes stays in the bundle's spec / payload.
JsonDumps(type) ==
    CASE type = "map" -> "json_map"
      [] type = "list" -> "json_list"
      [] type = "str" -> "json_str"
      [] OTHER -> type

\* Decoding a field: a text that encodes a JSON value becomes that value; a
\* value that is not a text, and a text that is not JSON ("str"), stay as they
\* are.
JsonLoadsKeepsText(type) == type

JsonLoads(type) ==
    CASE type = "json_map" -> "map"
      [] type = "json_list" -> "list"
      [] type = "json_str" -> "str"
      [] OTHER -> type

\* normalize_mpp_bundle on a bundle value: the specification and the payload are
\* decoded when they are texts; nothing else changes.
NormalizeBundleValue(b) ==
    [b EXCEPT !.spec_type = JsonLoads(@), !.payload_type = JsonLoads(@)]

-----------------------------------------------------------------------------
(* template_tokens.py: the functions on template text *)

\* _TOKEN_START, line 6
TOKEN_START == "{{MPP_MUTABLE:"

\* _TOKEN_END, line 7
TOKEN_END == "{{/MPP_MUTABLE}}"

\* The "}}" that ends a name, line 26.  TOKEN_END ends with it too.
NAME_CLOSE == "}}"

\* TOKEN_END without its final "}}": what a name holds when the "}}" found at
\* line 26 is the one inside an end token.
TOKEN_END_HEAD == "{{/MPP_MUTABLE"

\* A template text is a sequence of lexemes: the two tokens, "}}", a blank, and
\* runs of letters.  No lexeme other than the tokens contains a brace, so find
\* matches a token only where the sequence has it.
Blank == " "

\* A region written in full.
RegionText(name, content) == <<TOKEN_START>> \o name \o <<NAME_CLOSE>> \o content \o <<TOKEN_END>>

\* The fragments templates are put together from: plain text, regions (two of the
\* same name, one with blanks around its name), a region that lacks its end
\* token, a start token with a blank name, a start token whose name is not
\* closed, and an end token alone.
TemplateFragments ==
    {<<"t">>,
     RegionText(<<"a">>, <<"x">>),
     RegionText(<<"a">>, <<"y">>),
     RegionText(<<Blank, "b", Blank>>, <<"z">>),
     <<TOKEN_START, "a", NAME_CLOSE, "x">>,
     <<TOKEN_START, Blank, NAME_CLOSE>>,
     <<TOKEN_START, "a">>,
     <<TOKEN_END>>}

\* The templates of at most n fragments.
RECURSIVE TemplateTexts(_)
TemplateTexts(n) ==
    IF n = 0 THEN {<<>>}
    ELSE TemplateTexts(n - 1)
            \cup {t \o f : t \in TemplateTexts(n - 1), f \in TemplateFragments}

\* A mapping of block names to texts with no entry, for names that are texts.
NoTextBlocks == [n \in {} |-> <<>>]

\* The replacements render is given: none, one for the name "a", and one for
\* "a" with one for a name no template has.
TemplateReplacements ==
    {NoTextBlocks,
     [n \in {<<"a">>} |-> <<"v">>],
     [n \in {<<"a">>, <<"q">>} |-> IF n = <<"a">> THEN <<"v">> ELSE <<"w">>]}

\* str.find(token, pos) for a token of `tokens`: the first position from pos on
\* that holds one (0: not found; positions count from 1).
Find(text, tokens, pos) ==
    LET hits == {k \in pos..Len(text) : text[k] \in tokens}
    IN  IF hits = {} THEN 0 ELSE CHOOSE k \in hits : \A other \in hits : k <= other

\* str.strip(), line 29
RECURSIVE StripBlanks(_)
StripBlanks(text) ==
    IF text = <<>> THEN text
    ELSE IF Head(text) = Blank THEN StripBlanks(Tail(text))
    ELSE IF text[Len(text)] = Blank THEN StripBlanks(SubSeq(text, 1, Len(text) - 1))
    ELSE text

\* MutableBlock, lines 10-15: start is the position of the start token, end the
\* position after the end token.
MutableBlock(name, content, start, end) ==
    [name |-> name, content |-> content, start |-> start, end |-> end]

\* What a template function did: the ValueError it raised (None: it returned)
\* and the value it returned.
TemplateOutcome(error, value) == [error |-> error, value |-> value]

\* _parse_blocks, lines 18-45, from position pos on.  An exception leaves no
\* blocks behind.
RECURSIVE ParseBlocksFrom(_, _)
ParseBlocksFrom(text, pos) ==
    LET start == Find(text, {TOKEN_START}, pos)
        name_end == Find(text, {NAME_CLOSE, TOKEN_END}, start + 1)
        name == StripBlanks(SubSeq(text, start + 1, name_end - 1)
                        \o (IF text[name_end] = TOKEN_END THEN <<TOKEN_END_HEAD>>
                            ELSE <<>>))
        end == Find(text, {TOKEN_END}, name_end + 1)
        rest == ParseBlocksFrom(text, end + 1)
    IN  IF start = 0 THEN TemplateOutcome(None, <<>>)
        ELSE IF name_end = 0
        THEN TemplateOutcome("Unclosed MPP_MUTABLE start token.", <<>>)
        ELSE IF name = <<>>
        THEN TemplateOutcome("MPP_MUTABLE block name cannot be empty.", <<>>)
        ELSE IF end = 0
        THEN TemplateOutcome("Missing {{/MPP_MUTABLE}} for block.", <<>>)
        ELSE IF rest.error # None THEN rest
        ELSE TemplateOutcome(None,
                <<MutableBlock(name, SubSeq(text, name_end + 1, end - 1), start, end + 1)>>
                    \o rest.value)

\* list_mutable_blocks, lines 48-49
list_mutable_blocks(text) ==
    LET parsed == ParseBlocksFrom(text, 1)
    IN  IF parsed.error # None THEN parsed
        ELSE TemplateOutcome(None, [k \in 1..Len(parsed.value) |-> parsed.value[k].name])

\* extract_mutable_blocks, lines 52-54, on template text: a later block of a
\* name overwrites an earlier one.
ExtractMutableBlocksText(text) ==
    LET parsed == ParseBlocksFrom(text, 1)
        blocks == parsed.value
        last(n) == CHOOSE k \in 1..Len(blocks) :
                      /\ blocks[k].name = n
                      /\ \A j \in 1..Len(blocks) : blocks[j].name = n => j <= k
    IN  IF parsed.error # None THEN TemplateOutcome(parsed.error, NoTextBlocks)
        ELSE TemplateOutcome(None,
                [n \in {blocks[k].name : k \in 1..Len(blocks)} |-> blocks[last(n)].content])

RECURSIVE RenderFrom(_, _, _, _, _)

\* Rendering that uses a replacement only at the first block of a name.
RenderFromFirstOnly(text, blocks, values, k, pos) ==
    IF k > Len(blocks) THEN SubSeq(text, pos, Len(text))
    ELSE SubSeq(text, pos, blocks[k].start - 1)
            \o (IF blocks[k].name \in DOMAIN values
                    /\ \A j \in 1..(k - 1) : blocks[j].name # blocks[k].name
                THEN values[blocks[k].name]
                ELSE blocks[k].content)
            \o RenderFrom(text, blocks, values, k + 1, blocks[k].end)

\* Rendering that leaves out the content of a block it has no replacement for.
RenderFromDropsUnreplaced(text, blocks, values, k, pos) ==
    IF k > Len(blocks) THEN SubSeq(text, pos, Len(text))
    ELSE SubSeq(text, pos, blocks[k].start - 1)
            \o (IF blocks[k].name \in DOMAIN values THEN values[blocks[k].name]
                ELSE <<>>)
            \o RenderFrom(text, blocks, values, k + 1, blocks[k].end)

\* Lines 61-69: the text from pos on with blocks k.. rendered.
RenderFrom(text, blocks, values, k, pos) ==
    IF k > Len(blocks) THEN SubSeq(text, pos, Len(text))
    ELSE SubSeq(text, pos, blocks[k].start - 1)
            \o (IF blocks[k].name \in DOMAIN values THEN values[blocks[k].name]
                ELSE blocks[k].content)
            \o RenderFrom(text, blocks, values, k + 1, blocks[k].end)

\* render_mutable_template, lines 57-69, on template text.
RenderMutableTemplateText(text, values) ==
    LET parsed == ParseBlocksFrom(text, 1)
    IN  IF parsed.error # None THEN parsed
        ELSE IF parsed.value = <<>> THEN TemplateOutcome(None, text)
        ELSE TemplateOutcome(None, RenderFrom(text, parsed.value, values, 1, 1))

-----------------------------------------------------------------------------
(* metrics.py: TraceCostMetric *)

\* A float, kept exact as a fraction with a positive denominator.
Rational(num, den) == [num |-> num, den |-> den]

RatAdd(a, b) == Rational(a.num * b.den + b.num * a.den, a.den * b.den)

RatMul(a, b) == Rational(a.num * b.num, a.den * b.den)

\* a / b for b > 0
RatDiv(a, b) == Rational(a.num * b.den, a.den * b.num)

RatEq(a, b) == a.num * b.den = b.num * a.den

RatLess(a, b) == a.num * b.den < b.num * a.den

RatLeq(a, b) == a.num * b.den <= b.num * a.den

RatInt(n) == Rational(n, 1)

\* None, for a weight argument.
NoWeight == Rational(0, 0)

\* executor_weight when it is not given, computed as final_weight /
\* weight_multiplier.
DefaultExecutorWeightSingle(final_weight, weight_multiplier) ==
    RatDiv(final_weight, weight_multiplier)

\* line 36: final_weight / (weight_multiplier**2)
DefaultExecutorWeight(final_weight, weight_multiplier) ==
    RatDiv(final_weight, RatMul(weight_multiplier, weight_multiplier))

\* TraceCostMetric.__init__, lines 24-38
TraceCostMetric(final_weight, architect_weight, executor_weight, weight_multiplier) ==
    [final_weight |-> final_weight,
     architect_weight |-> IF architect_weight = NoWeight
                          THEN RatDiv(final_weight, weight_multiplier)
                          ELSE architect_weight,
     executor_weight |-> IF executor_weight = NoWeight
                         THEN DefaultExecutorWeight(final_weight, weight_multiplier)
                         ELSE executor_weight,
     weight_multiplier |-> weight_multiplier,
     derived |-> architect_weight = NoWeight /\ executor_weight = NoWeight]

\* TraceCostMetric(): final_weight 4.0, weight_multiplier 2.0
DefaultMetric == TraceCostMetric(RatInt(4), NoWeight, NoWeight, RatInt(2))

\* The metrics scored with: the default, one with final_weight 1.0 and
\* weight_multiplier 4.0, and one with the two refinement weights given.
Metrics ==
    {DefaultMetric,
     TraceCostMetric(RatInt(1), NoWeight, NoWeight, RatInt(4)),
     TraceCostMetric(RatInt(4), RatInt(3), RatInt(1), RatInt(2))}

\* The fields of a LongitudinalTrace that score reads (mpp_optimizer.py
\* 223-229): the flags are "True", "False" or None, the counts {} for None.
MetricTrace(bundleStable, executorStable, qaPassed, bundleRefinements, executorRefinements) ==
    [bundle_stable |-> bundleStable, executor_stable |-> executorStable,
     qa_passed |-> qaPassed, bundle_refinements |-> bundleRefinements,
     executor_refinements |-> executorRefinements]

OptionalFlags == {"True", "False", None}

OptionalCounts == {{}} \cup {{n} : n \in 0..MaxRefinements}

MetricTraces ==
    [bundle_stable : OptionalFlags, executor_stable : OptionalFlags,
     qa_passed : OptionalFlags, bundle_refinements : OptionalCounts,
     executor_refinements : OptionalCounts]

\* A trace of a run that succeeded at once, and one of a run that failed.
CleanTrace == MetricTrace("True", "True", "True", {0}, {0})

FailedTrace == MetricTrace("True", "False", None, {1}, {})

\* The trace sets scored: none, one trace, and two traces.
MetricTraceSets ==
    {<<>>} \cup {<<t>> : t \in MetricTraces}
        \cup {<<t, CleanTrace>> : t \in MetricTraces}
        \cup {<<FailedTrace, t>> : t \in MetricTraces}
        \cup {<<t, t>> : t \in MetricTraces}

\* `count or 0`, lines 53-54
OrZero(count) == IF count = {} THEN 0 ELSE CHOOSE n \in count : TRUE

\* The success test that leaves qa_passed out.
TraceSucceededWithoutQA(trace) ==
    trace.bundle_stable = "True" /\ trace.executor_stable = "True"

\* lines 45-49
TraceSucceeded(trace) ==
    /\ trace.bundle_stable = "True"
    /\ trace.executor_stable = "True"
    /\ trace.qa_passed = "True"

\* lines 53-56: case_score of a trace that succeeded
CaseScore(m, bundleRefinements, executorRefinements) ==
    RatDiv(m.final_weight,
           RatAdd(m.final_weight,
                  RatAdd(RatMul(m.architect_weight, RatInt(bundleRefinements)),
                         RatMul(m.executor_weight, RatInt(executorRefinements)))))

\* lines 43-57: total after the first k traces
RECURSIVE TotalScore(_, _, _)
TotalScore(m, traces, k) ==
    IF k = 0 THEN RatInt(0)
    ELSE IF ~TraceSucceeded(traces[k]) THEN RatAdd(TotalScore(m, traces, k - 1), RatInt(0))
    ELSE RatAdd(TotalScore(m, traces, k - 1),
                CaseScore(m, OrZero(traces[k].bundle_refinements),
                          OrZero(traces[k].executor_refinements)))

\* TraceCostMetric.score, lines 40-58
TraceCostScore(m, traces) ==
    IF traces = <<>> THEN RatInt(0)
    ELSE RatDiv(TotalScore(m, traces, Len(traces)), RatInt(Len(traces)))

-----------------------------------------------------------------------------
(* template_tokens.py and MPPLongitudinalRefiner: values *)

\* A template, as _parse_blocks reads it: its pieces in order, each plain text or
\* one {{MPP_MUTABLE:name}}content{{/MPP_MUTABLE}} region.
TextPiece(content) == [kind |-> "text", name |-> "", content |-> content]

RegionPiece(name, content) == [kind |-> "region", name |-> name, content |-> content]

NoBlocksTemplate == <<TextPiece("plain")>>

\* test_longitudinal_refiner.py: "Start {{MPP_MUTABLE:block}}bad{{/MPP_MUTABLE}} end."
OneBlockTemplate == <<TextPiece("Start "), RegionPiece("block", "bad"), TextPiece(" end.")>>

LongitudinalTemplates == {NoBlocksTemplate, OneBlockTemplate}

\* A mapping of block names to texts with no entry.
NoBlocks == [n \in {} |-> ""]

\* _parse_blocks, lines 18-45, on a well-formed template: its regions in order.
ParseBlocks(template) == SelectSeq(template, LAMBDA piece : piece.kind = "region")

\* extract_mutable_blocks, lines 52-54: a later region of a name overwrites an
\* earlier one.
extract_mutable_blocks(template) ==
    LET blocks == ParseBlocks(template)
        last(n) == CHOOSE k \in 1..Len(blocks) :
                      /\ blocks[k].name = n
                      /\ \A j \in 1..Len(blocks) : blocks[j].name = n => j <= k
    IN  [n \in {blocks[k].name : k \in 1..Len(blocks)} |-> blocks[last(n)].content]

\* render_mutable_template, lines 57-69: the text pieces and, for each region, its
\* replacement or its own content; the tokens are not part of the result.
render_mutable_template(template, replacements) ==
    [k \in 1..Len(template) |->
        IF template[k].kind = "region" /\ template[k].name \in DOMAIN replacements
        THEN replacements[template[k].name]
        ELSE template[k].content]

\* {**a, **b} and dict(a).update(b)
MergeBlocks(a, b) ==
    [n \in (DOMAIN a) \cup (DOMAIN b) |-> IF n \in DOMAIN b THEN b[n] ELSE a[n]]

\* initial_overrides: None, or a mapping
InitialOverrides == {NoBlocks, [n \in {"block"} |-> "seed"]}

\* What one mutate_function call does: raise, or return proposed blocks (none, a
\* new text for the template's block, a block the template does not have).
MutateOutcomes ==
    {[kind |-> "raise", blocks |-> NoBlocks],
     [kind |-> "ok", blocks |-> NoBlocks],
     [kind |-> "ok", blocks |-> [n \in {"block"} |-> "good"]],
     [kind |-> "ok", blocks |-> [n \in {"extra"} |-> "new"]]}

\* What one score_function call does: raise, return a bare number, or return a
\* LongitudinalScore with per-case traces.
ScoreOutcomes ==
    {[kind |-> "raise", score |-> 0],
     [kind |-> "float", score |-> 0],
     [kind |-> "LongitudinalScore", score |-> 1],
     [kind |-> "LongitudinalScore", score |-> 2]}

\* The traces of the n-th scoring pass.
LongitudinalTraces(n) == <<[case |-> "example", pass |-> n]>>

\* _score, lines 367-383: (score, traces) of the n-th scoring pass.
ScoreOf(outcome, n) ==
    [score |-> outcome.score,
     traces |-> IF outcome.kind = "LongitudinalScore" THEN LongitudinalTraces(n)
                ELSE <<>>]

\* One _score call: what it was called with and what came back.
ScoreCall(template, blocks, outcome) ==
    [template |-> template, blocks |-> blocks, kind |-> outcome.kind,
     score |-> outcome.score]

\* the traces argument of a two-argument mutate_function
TracesNotPassed == "not passed"

\* Faulty variant of MutateCall: the traces are passed whatever the signature.
MutateCallAlwaysTraces(blocks, traces, acceptsTraces) ==
    [blocks |-> blocks, traces |-> traces]

\* _mutate, lines 385-393: what mutate_function is called with.
MutateCall(blocks, traces, acceptsTraces) ==
    [blocks |-> blocks, traces |-> IF acceptsTraces THEN traces ELSE TracesNotPassed]

\* Faulty variant of LongitudinalStep: every step carries the baseline's number.
LongitudinalStepUnnumbered(iteration, template, score) ==
    [iteration |-> 0, template |-> template, score |-> score]

\* LongitudinalStep, lines 199-204
LongitudinalStep(iteration, template, score) ==
    [iteration |-> iteration, template |-> template, score |-> score]

\* Faulty variant of LongitudinalResult: blocks is left at its default.
LongitudinalResultDefaultBlocks(template, score, n, hist, blocks) ==
    [kind |-> "LongitudinalResult", template |-> template, score |-> score,
     iterations |-> n, history |-> hist, blocks |-> NoBlocks]

\* LongitudinalResult, lines 207-214
LongitudinalResult(template, score, n, hist, blocks) ==
    [kind |-> "LongitudinalResult", template |-> template, score |-> score,
     iterations |-> n, history |-> hist, blocks |-> blocks]

\* refine, lines 275-279
NoMutableBlocksError == Exception("ValueError", "refine", "No mutable blocks found.")

\* Faulty variant of IsBetter: an equal score counts as better.
IsBetterOrEqual(candidate, best, max) ==
    IF max THEN candidate >= best ELSE candidate <= best

\* _is_better, lines 340-341
IsBetter(candidate, best, max) == IF max THEN candidate > best ELSE candidate < best

\* Faulty variant of LongitudinalHasNext: one pass more than the cap.
LongitudinalHasNextInclusive(done, cap) == done <= cap

\* line 287: for i in range(1, self.max_iters + 1), after `done` passes.
LongitudinalHasNext(done, cap) == done < cap

-----------------------------------------------------------------------------
(* mutations.py: DefaultLongitudinalMutator *)

\* A JSON value of a generator response: a string, null or a number, with the text
\* str() gives for it.
JsonValue(type, text) == [type |-> type, text |-> text]

JsonNull == JsonValue("null", "None")

\* A generator response is a sequence of tokens: an opening or closing brace, a
\* "key": value member of an object, a stretch of text that is not JSON, an empty
\* JSON list, or a line holding a code fence (three backquotes).
Token(kind) == [kind |-> kind, key |-> "", value |-> JsonNull]

Member(key, value) == [kind |-> "member", key |-> key, value |-> value]

\* DefaultLongitudinalMutator.__init__, lines 132-136: the default allowed_keys
DefaultAllowedKeys == {"strategy_payload", "architect_primer", "executor_primer"}

\* The allow-lists the policy is built with: the default, and one that names the
\* entry prompt.
AllowedKeySets == {DefaultAllowedKeys, {"entry_prompt", "architect_primer"}}

\* The blocks of a template with the four regions the benchmark templates have.
PrimerBlocks ==
    [n \in {"entry_prompt", "strategy_payload", "architect_primer", "executor_primer"} |->
        IF n = "entry_prompt" THEN "goal" ELSE "initial"]

\* What the proposing generator answers: an object with an allowed key and the
\* entry prompt; no JSON at all; an object cut off before its closing brace; an
\* object inside other text; JSON that is not an object; a fenced object with a
\* null and a number; braces in the wrong order; braces around text that is not
\* JSON.
MutatorResponses ==
    {<<Token("{"), Member("strategy_payload", JsonValue("str", "plan")),
       Member("entry_prompt", JsonValue("str", "other goal")), Token("}")>>,
     <<Token("text")>>,
     <<Token("{"), Member("architect_primer", JsonValue("str", "cut"))>>,
     <<Token("text"), Token("{"), Member("architect_primer", JsonValue("str", "found")),
       Token("}"), Token("text")>>,
     <<Token("[]")>>,
     <<Token("fence"), Token("{"), Member("executor_primer", JsonNull),
       Member("strategy_payload", JsonValue("num", "3")), Token("}"), Token("fence")>>,
     <<Token("}"), Token("text"), Token("{")>>,
     <<Token("{"), Token("text"), Token("}")>>}

\* _strip_code_fences, lines 11-20: without an opening fence line the text is
\* returned as it is; otherwise the first line goes, and the last when it is a
\* fence.
MutatorStripCodeFences(text) ==
    IF text = <<>> \/ text[1].kind # "fence" THEN text
    ELSE LET lines == Tail(text)
         IN  IF lines # <<>> /\ lines[Len(lines)].kind = "fence"
             THEN SubSeq(lines, 1, Len(lines) - 1)
             ELSE lines

\* The outcome of json.loads: a JSONDecodeError, or the parsed value.
JsonParsed(error, type, members) == [error |-> error, type |-> type, members |-> members]

\* json.loads: an object is the braces around members and nothing else.
JsonLoadsText(text) ==
    IF /\ Len(text) >= 2
       /\ text[1].kind = "{" /\ text[Len(text)].kind = "}"
       /\ \A k \in 2..(Len(text) - 1) : text[k].kind = "member"
    THEN JsonParsed(FALSE, "dict", SubSeq(text, 2, Len(text) - 1))
    ELSE IF text = <<Token("[]")>> THEN JsonParsed(FALSE, "list", <<>>)
    ELSE JsonParsed(TRUE, "none", <<>>)

\* str.find("{"): the first opening brace, or -1
FindOpen(text) ==
    IF \E k \in 1..Len(text) : text[k].kind = "{"
    THEN CHOOSE k \in 1..Len(text) :
            text[k].kind = "{" /\ \A j \in 1..(k - 1) : text[j].kind # "{"
    ELSE -1

\* str.rfind("}"): the last closing brace, or -1
RFindClose(text) ==
    IF \E k \in 1..Len(text) : text[k].kind = "}"
    THEN CHOOSE k \in 1..Len(text) :
            text[k].kind = "}" /\ \A j \in (k + 1)..Len(text) : text[j].kind # "}"
    ELSE -1

\* Faulty variant of _parse_json_object: no second attempt on the text between
\* the braces.
ParseJsonObjectWholeOnly(text) ==
    JsonLoadsText(MutatorStripCodeFences(text))

\* _parse_json_object, lines 23-36: the whole text, or else what lies between
\* the first opening and the last closing brace; None (error) when neither
\* parses or the value is not an object.
ParseJsonObject(text) ==
    LET cleaned == MutatorStripCodeFences(text)
        whole == JsonLoadsText(cleaned)
        start == FindOpen(cleaned)
        end == RFindClose(cleaned)
        parsed == IF ~whole.error THEN whole
                  ELSE IF start = -1 \/ end = -1 \/ end <= start
                       THEN JsonParsed(TRUE, "none", <<>>)
                       ELSE JsonLoadsText(SubSeq(cleaned, start, end))
    IN  IF ~parsed.error /\ parsed.type = "dict" THEN parsed
        ELSE JsonParsed(TRUE, "none", <<>>)

\* payload[key] of a parsed object: the last member of that key
PayloadValue(members, key) ==
    LET last == CHOOSE k \in 1..Len(members) :
                    /\ members[k].key = key
                    /\ \A j \in (k + 1)..Len(members) : members[j].key # key
    IN  members[last].value

\* Faulty variant of MutatorProposal: every key of the payload is returned.
MutatorProposalAnyKey(payload, allowed) ==
    LET keys == {payload.members[k].key : k \in 1..Len(payload.members)}
    IN  IF payload.error THEN NoBlocks
        ELSE [key \in {n \in keys : PayloadValue(payload.members, n).type # "null"} |->
                PayloadValue(payload.members, key).text]

\* DefaultLongitudinalMutator.__call__, lines 172-179: an empty mapping when
\* there is no payload, else str() of the payload's values that are under an
\* allowed key and not None.
MutatorProposal(payload, allowed) ==
    LET keys == {payload.members[k].key : k \in 1..Len(payload.members)}
    IN  IF payload.error THEN NoBlocks
        ELSE [key \in {n \in allowed \cap keys :
                          PayloadValue(payload.members, n).type # "null"} |->
                PayloadValue(payload.members, key).text]

\* DefaultLongitudinalMutator.__call__, lines 142-179, for the generator's
\* answer: the prompt does not decide what comes back.
DefaultLongitudinalMutator(response, allowed) ==
    MutatorProposal(ParseJsonObject(response), allowed)

\* One call of the policy from refine: the blocks it was called with, the
\* generator's answer, the proposal returned, and the blocks refine merged
\* them into (mpp_optimizer.py 288-290).
MutatorCall(blocks, response, proposal) ==
    [blocks |-> blocks, response |-> response, proposal |-> proposal,
     merged |-> MergeBlocks(blocks, proposal)]

\* refine with a DefaultLongitudinalMutator as mutate_function: the blocks
\* before the first pass.
DefaultMutatorRefine ==
    /\ pc = "idle"
    /\ \E allowed \in AllowedKeySets :
        /\ allowed_keys' = allowed
        /\ mutator_blocks' = PrimerBlocks
    /\ op' = "default_mutator" /\ pc' = "loop"
    /\ mutator_calls' = <<>>
    /\ UNCHANGED <<coreVars, backendVars>>

\* refine, lines 287-308, with a DefaultLongitudinalMutator: the policy is called
\* with the current blocks, its proposal is merged over them, and the merged
\* blocks become current when the candidate's score is better, which it may or
\* may not be.
DefaultMutatorPass ==
    /\ pc = "loop" /\ op = "default_mutator"
    /\ Len(mutator_calls) < MaxMutations
    /\ \E response \in MutatorResponses, taken \in BOOLEAN :
        LET call == MutatorCall(mutator_blocks, response,
                                DefaultLongitudinalMutator(response, allowed_keys))
        IN  /\ mutator_calls' = Append(mutator_calls, call)
            /\ mutator_blocks' = IF taken THEN call.merged ELSE mutator_blocks
    /\ UNCHANGED <<op, pc, allowed_keys>>
    /\ UNCHANGED <<coreVars, backendVars>>

-----------------------------------------------------------------------------
(* benchmarks/langdock.py: _post and create_chat_completion *)

\* langdock.py, line 16
RETRYABLE_STATUS_CODES == {408, 409, 429}

\* The retry counts a request is made with; create_chat_completion passes 3
\* when it is given none (line 137).
RetryCounts == 0..2

\* _post, line 65, and create_chat_completion, line 138: the default base_delay
DefaultBaseDelay == 1

\* Model ids are texts: a name, with blanks around it or not, or nothing.
ModelA == <<"model-a">>

ModelB == <<"model-b">>

\* The primary model and the fallback_models of a call: no model at all; one
\* model and no fallbacks; a primary with fallbacks that repeat it, name a
\* second model twice and hold an empty id.
ModelChoices ==
    {[model |-> <<>>, fallback_models |-> <<>>],
     [model |-> ModelA, fallback_models |-> <<>>],
     [model |-> ModelA,
      fallback_models |-> << <<Blank>> \o ModelA, <<>>, ModelB, ModelB \o <<Blank>> >>]}

\* _unique_models, lines 322-333: the ids stripped, without the empty ones and
\* without repeats, in the order given.
RECURSIVE UniqueFrom(_, _)
UniqueFrom(items, models) ==
    IF items = <<>> THEN models
    ELSE LET candidate == StripBlanks(Head(items))
             seen == {models[k] : k \in 1..Len(models)}
         IN  IF Head(items) = <<>> \/ candidate = <<>> \/ candidate \in seen
             THEN UniqueFrom(Tail(items), models)
             ELSE UniqueFrom(Tail(items), Append(models, candidate))

UniqueModels(primary, fallbacks) == UniqueFrom(<<primary>> \o fallbacks, <<>>)

\* The Retry-After header of an HTTP error: absent, a number of seconds, or a
\* text float() does not take.
RetryAfter(present, numeric, seconds) ==
    [present |-> present, numeric |-> numeric, seconds |-> seconds]

NoRetryAfter == RetryAfter(FALSE, FALSE, 0)

\* What urlopen does in one attempt: a response, an HTTPError with its status
\* and Retry-After header, or a URLError.
PostOutcome(kind, code, header) == [kind |-> kind, code |-> code, header |-> header]

PostOutcomes ==
    {PostOutcome("ok", 200, NoRetryAfter),
     PostOutcome("http", 403, NoRetryAfter),
     PostOutcome("http", 400, NoRetryAfter),
     PostOutcome("http", 429, RetryAfter(TRUE, TRUE, 3)),
     PostOutcome("http", 409, RetryAfter(TRUE, FALSE, 0)),
     PostOutcome("http", 503, NoRetryAfter),
     PostOutcome("network", 0, NoRetryAfter)}

\* LangdockAPIError, LangdockForbiddenError (lines 19-26) and the RuntimeError
\* of _post, with the status they name; 0 when they name none.
BackendError(type, code) == [type |-> type, code |-> code]

NoBackendError == BackendError(None, 0)

\* Faulty variant of IsForbidden: no status is an authorization failure.
IsForbiddenNever(outcome) == FALSE

\* _post, line 78
IsForbidden(outcome) == outcome.kind = "http" /\ outcome.code = 403

\* Faulty variant of IsRetryable: every HTTP error is retried.
IsRetryableAnyStatus(outcome) == outcome.kind \in {"http", "network"}

\* _post, lines 84-85 and 96-97: the failures that are retried while attempts
\* are left.
IsRetryable(outcome) ==
    \/ outcome.kind = "network"
    \/ /\ outcome.kind = "http"
       /\ outcome.code \in RETRYABLE_STATUS_CODES \/ outcome.code >= 500

\* base_delay * (2**attempt), lines 87 and 98
Backoff(base, k) == base * 2^k

\* _post, lines 87-92 and 98: the delay before the next attempt.
RetryDelay(base, k, outcome) ==
    IF outcome.kind = "http" /\ outcome.header.present /\ outcome.header.numeric
          /\ outcome.header.seconds > Backoff(base, k)
    THEN outcome.header.seconds
    ELSE Backoff(base, k)

\* One attempt of _post: the model of the request, the attempt's number, what
\* urlopen did, and the delay slept after it, if any.
PostAttempt(model, k, outcome, slept) ==
    [model |-> model, attempt |-> k, outcome |-> outcome, slept |-> slept]

\* What create_chat_completion did: nothing yet, returned the response of a
\* model, or raised.
Completion(status, model, error) == [status |-> status, model |-> model, error |-> error]

\* create_chat_completion, lines 116-128 and 141-143: the models to try; with
\* none there is no last error and LangdockAPIError is raised.
CreateChatCompletionCall ==
    /\ pc = "idle"
    /\ \E choice \in ModelChoices, count \in RetryCounts :
        LET models == UniqueModels(choice.model, choice.fallback_models)
        IN  /\ models_to_try' = models
            /\ retries' = count
            /\ IF models = <<>>
               THEN /\ pc' = "raised"
                    /\ completion' = Completion("raised", <<>>,
                                                BackendError("LangdockAPIError", 0))
               ELSE /\ pc' = "loop"
                    /\ completion' = Completion("pending", <<>>, NoBackendError)
    /\ op' = "create_chat_completion"
    /\ base_delay' = DefaultBaseDelay
    /\ model_index' = 1 /\ attempt' = 0
    /\ post_log' = <<>> /\ last_forbidden' = NoBackendError
    /\ UNCHANGED <<coreVars, mutatorVars>>

\* One attempt of _post (lines 73-101) for the candidate model, and what
\* create_chat_completion does when _post leaves (lines 129-142): a response is
\* returned; an authorization failure moves on to the next model, or is raised
\* when there is none; a retryable failure with attempts left sleeps and
\* tries again; any other failure is raised.
PostRequestAttempt ==
    /\ pc = "loop" /\ op = "create_chat_completion"
    /\ \E outcome \in PostOutcomes :
        LET model == models_to_try[model_index]
            retried == ~IsForbidden(outcome) /\ outcome.kind # "ok"
                         /\ attempt < retries /\ IsRetryable(outcome)
            slept == IF retried THEN {RetryDelay(base_delay, attempt, outcome)} ELSE {}
            forbidden == BackendError("LangdockForbiddenError", outcome.code)
        IN  /\ post_log' = Append(post_log, PostAttempt(model, attempt, outcome, slept))
            /\ IF outcome.kind = "ok"
               THEN /\ pc' = "returned"
                    /\ completion' = Completion("returned", model, NoBackendError)
                    /\ UNCHANGED <<model_index, attempt, last_forbidden>>
               ELSE IF IsForbidden(outcome)
               THEN /\ last_forbidden' = forbidden
                    /\ IF model_index < Len(models_to_try)
                       THEN /\ model_index' = model_index + 1 /\ attempt' = 0
                            /\ UNCHANGED <<pc, completion>>
                       ELSE /\ pc' = "raised"
                            /\ completion' = Completion("raised", model, forbidden)
                            /\ UNCHANGED <<model_index, attempt>>
               ELSE IF retried
               THEN /\ attempt' = attempt + 1
                    /\ UNCHANGED <<pc, completion, model_index, last_forbidden>>
               ELSE /\ pc' = "raised"
                    /\ completion' = Completion("raised", model,
                                                BackendError("RuntimeError", outcome.code))
                    /\ UNCHANGED <<model_index, attempt, last_forbidden>>
    /\ UNCHANGED <<op, models_to_try, retries, base_delay>>
    /\ UNCHANGED <<coreVars, mutatorVars>>

-----------------------------------------------------------------------------
(* MPPAutoAdapter.forward and feedback.py: values *)

\* The executor caps forward is called with.
ExecutorIterCaps == 0..2

\* What bundle_optimizer.refine(max_iters = cap, previous_bundle = prev) does:
\* raise, or return a validated bundle; stable after n <= cap passes (in the first
\* pass only when the bundle repeats a valid previous bundle), or unstable after
\* cap passes.
RefineResults(cap, prev) ==
    {[kind |-> "raise"]}
    \cup {r \in {BundleResult([id |-> b, enc |-> "map"], n, TRUE, <<>>) :
                    b \in ValidIds, n \in 1..cap} :
            r.iterations > 1 \/ prev = r.bundle}
    \cup {BundleResult([id |-> b, enc |-> "map"], cap, FALSE, <<>>) : b \in ValidIds}

\* The qa_passed of an execution whose last QA verdict is `verdict` (None: QA
\* did not run).
QAPassedOfVerdict(verdict) ==
    IF verdict = None THEN None ELSE Bool(verdict = "pass")

\* An ExecutionResult as forward reads it.
ForwardExecution(st, n, verdict) ==
    [kind |-> "ExecutionResult", stable |-> st, iterations |-> n,
     qa_verdict |-> verdict, qa_passed |-> QAPassedOfVerdict(verdict),
     decoded_bundle |-> "response"]

\* What execute(max_iters = cap, open_world, final_qa = not open_world) does:
\* raise, or return.  Open-world: QA ran after every response; a pass ended the
\* loop, a repeated response ended it with the verdict fail.  Closed-world: the
\* loop ends on a repeated response or at the cap, and the final QA, when it
\* runs, sets the verdict.
ExecuteResults(cap, ow) ==
    {[kind |-> "raise"]}
    \cup (IF cap = 0 THEN {ForwardExecution(FALSE, 0, None)}
          ELSE IF ow
          THEN {ForwardExecution(TRUE, n, "pass") : n \in 1..cap}
               \cup {ForwardExecution(TRUE, n, "fail") : n \in 2..cap}
               \cup {ForwardExecution(FALSE, cap, "fail")}
          ELSE {ForwardExecution(TRUE, n, v) : n \in 1..cap, v \in {"pass", "fail", None}}
               \cup {ForwardExecution(FALSE, cap, v) : v \in {"pass", "fail", None}})

\* feedback.py: FeedbackEvent.from_execution_result, lines 30-78, with the
\* last_response of _append_executor_feedback (mpp_auto_adapter.py 76-84).
\* executor_refinements is Optional[int]: {} for None, {n} for n.
FeedbackEvent(exec) ==
    [kind |-> IF exec.qa_verdict # None /\ exec.qa_verdict # "pass"
              THEN "qa_failed" ELSE "executor_nonconvergent",
     qa_verdict |-> exec.qa_verdict,
     last_response |-> exec.decoded_bundle,
     executor_iterations |-> exec.iterations,
     executor_stable |-> exec.stable,
     executor_refinements |-> IF exec.iterations >= 1 THEN {exec.iterations - 1}
                              ELSE {}]

\* feedback.py: FeedbackTrace, lines 81-85
FeedbackTrace(events) == [version |-> "1", events |-> events]

\* feedback.py: FeedbackTrace.append, lines 87-88
AppendEvent(trace, event) == FeedbackTrace(Append(trace.events, event))

\* feedback.py: FeedbackTrace.to_prompt_text, lines 90-97: the JSON text of the
\* trace, keys sorted, no whitespace.
to_prompt_text(trace) ==
    [encoding |-> "json", keys |-> <<"events", "version">>,
     events |-> trace.events, version |-> trace.version]

\* forward's feedback before any cycle has failed: None
NoTraceText == [encoding |-> None, keys |-> <<>>, events |-> <<>>, version |-> None]

\* max(iterations - 1, 0), lines 186 and 224
Refinements(n) == IF n - 1 > 0 THEN n - 1 ELSE 0

\* Faulty variant of ForwardAccumulate: the total is the last cycle's count.
ForwardAccumulateLast(total, n) == Refinements(n)

\* lines 186 and 224: total += max(iterations - 1, 0)
ForwardAccumulate(total, n) == total + Refinements(n)

\* Faulty variant of ForwardSuccess: a stable closed-world response succeeds
\* whatever the QA verdict.
ForwardSuccessIgnoresQA(ow, exec) ==
    IF ow THEN exec.qa_passed = "True" ELSE exec.stable

\* lines 225-228: success of a cycle
ForwardSuccess(ow, exec) ==
    IF ow THEN exec.qa_passed = "True"
    ELSE exec.stable /\ exec.qa_passed = "True"

\* One cycle of forward: what refine was called with, what it and execute
\* returned ([kind |-> "raise"] when it raised, NoResult when it was not called),
\* and the trace before the cycle.
ForwardCycleRecord(prev, message, cap, bundleResult, execResult) ==
    [previous_bundle |-> prev, error_message |-> message, max_iters |-> cap,
     bundle_result |-> bundleResult, exec_result |-> execResult]

\* lines 238-256: the Prediction forward returns
Prediction(bundleResult, execResult, cyclesRun, bundleTotal, executorTotal, ow) ==
    [kind |-> "Prediction", bundle |-> bundleResult.bundle,
     decoded_bundle |-> execResult.decoded_bundle,
     qa_verdict |-> execResult.qa_verdict, qa_passed |-> execResult.qa_passed,
     bundle_iterations |-> bundleResult.iterations,
     bundle_refinements |-> Refinements(bundleResult.iterations),
     bundle_refinements_total |-> bundleTotal,
     bundle_stable |-> bundleResult.stable,
     executor_iterations |-> execResult.iterations,
     executor_refinements |-> Refinements(execResult.iterations),
     executor_refinements_total |-> executorTotal,
     executor_stable |-> execResult.stable,
     architect_cycles |-> cyclesRun, open_world |-> ow]

\* line 236
ForwardNoResultError ==
    Exception("ValueError", "forward", "Failed to produce a bundle/executor result.")

-----------------------------------------------------------------------------
(* Initial state: no call is running. *)

Init ==
    /\ op = "idle" /\ pc = "idle"
    /\ max_iters = 0 /\ i = 0
    /\ last_bundle = NoBundle /\ last_valid_bundle = NoBundle /\ last_error = None
    /\ steps = <<>> /\ prompts = <<>>
    /\ result = NoResult /\ raised = NoError
    /\ open_world = FALSE /\ expect_reasoning = FALSE
    /\ has_qa = FALSE /\ has_feedback_cb = FALSE
    /\ bundle = NoBundle
    /\ last_response = NoResponse /\ last_comparable = NoResponse
    /\ qa_result = NoQA /\ qa_passed = None /\ reasoning = None
    /\ stable = FALSE /\ iterations = 0 /\ final_response = NoResponse
    /\ qa_feedback = NoFeedback
    /\ executor_calls = 0 /\ qa_calls = 0 /\ feedbacks = <<>>
    /\ gen_log = <<>>
    /\ responses = <<>> /\ comparables = <<>>
    /\ arg_bundle = MinimalBundle /\ arg_faults = {} /\ validation = Unvalidated
    /\ source_bundle = MinimalBundle /\ normalized = MinimalBundle
    /\ template_arg = <<>> /\ replacements_arg = NoTextBlocks
    /\ listed = TemplateOutcome(None, <<>>)
    /\ extracted = TemplateOutcome(None, NoTextBlocks)
    /\ rendered_text = TemplateOutcome(None, <<>>)
    /\ rerendered = TemplateOutcome(None, <<>>)
    /\ metric = DefaultMetric /\ metric_traces = <<>> /\ metric_score = RatInt(0)
    /\ base_template = NoBlocksTemplate
    /\ maximize = TRUE /\ mutate_accepts_traces = FALSE
    /\ current_blocks = NoBlocks /\ current_traces = <<>>
    /\ best_template = <<>> /\ best_score = 0 /\ best_blocks = NoBlocks
    /\ history = <<>> /\ mutate_log = <<>> /\ score_log = <<>>
    /\ bundle_iters = 0 /\ executor_iters = 0
    /\ previous_bundle = NoBundle
    /\ feedback_trace = FeedbackTrace(<<>>) /\ feedback = NoTraceText
    /\ bundle_result = NoResult /\ exec_result = NoResult
    /\ architect_cycles = 0
    /\ bundle_refinements_total = 0 /\ executor_refinements_total = 0
    /\ cycles = <<>>
    /\ allowed_keys = DefaultAllowedKeys /\ mutator_blocks = NoBlocks
    /\ mutator_calls = <<>>
    /\ models_to_try = <<>> /\ model_index = 1 /\ retries = 0
    /\ base_delay = DefaultBaseDelay /\ attempt = 0
    /\ last_forbidden = NoBackendError /\ post_log = <<>>
    /\ completion = Completion("pending", <<>>, NoBackendError)

-----------------------------------------------------------------------------
(* MPPBundleOptimizer.refine *)

\* refine, lines 85-98: the locals before the loop.  previous_bundle is validated as
\* supplied (it is not normalized); only a valid one seeds last_valid_bundle.
RefineCall ==
    /\ pc = "idle"
    /\ \E prev \in RawBundles \cup {NoBundle}, err \in {None, "", "feedback trace"},
          cap \in 0..MaxIters :
        /\ op' = "refine" /\ pc' = "loop"
        /\ max_iters' = cap /\ i' = 0
        /\ last_bundle' = prev
        /\ last_valid_bundle' = IF prev # NoBundle /\ IsValid(prev) THEN prev ELSE NoBundle
        /\ last_error' = err
        /\ steps' = <<>> /\ prompts' = <<>>
    /\ UNCHANGED <<result, raised, gen_log>>
    /\ UNCHANGED executeVars
    /\ UNCHANGED nonLoopVars

\* Faulty variant of RefineIsStable: an identity test in place of ==, which a freshly
\* built dict never passes.
RefineIsStableIdentity(lastValid, b) == FALSE

\* line 140: the stability test of a validated bundle.
RefineIsStable(lastValid, b) == lastValid = b

\* lines 128-129 / 144-145: the bundle the next prompt shows as "previous bundle".
\* Both a rejected and an accepted bundle take that place.
RefineNextLastBundle(b, verdict) == b

\* Faulty variant of RefineNextLastValid: the assignment made before the validity
\* test, so that a rejected bundle is kept as well.
RefineNextLastValidAny(lastValid, b, verdict) == b

\* line 145: only a validated bundle becomes last_valid_bundle.
RefineNextLastValid(lastValid, b, verdict) ==
    IF verdict = "ok" THEN b ELSE lastValid

\* lines 99-145: one pass of the loop body.
RefineIteration ==
    /\ op = "refine" /\ pc = "loop" /\ i < max_iters
    /\ i' = i + 1
    /\ prompts' = Append(prompts, RefinedGoalOpt(UserGoal, last_bundle, last_error))
    /\ \E out \in ArchitectOutcomes :
        LET b == normalize_mpp_bundle(out.bundle)
            verdict == validate_bundle(b)
        IN  /\ gen_log' = Append(gen_log, Invocation("architect", out))
            /\ CASE out.kind = "raise" ->
                    \* lines 103-112: recorded, next pass
                    /\ last_error' = ArchitectErrorText
                    /\ steps' = Append(steps,
                          VerticalStep(i + 1, NoBundle, NoQA, None, ArchitectErrorText))
                    /\ UNCHANGED <<pc, last_bundle, last_valid_bundle, result, raised>>
              [] out.kind # "raise" /\ GetField(out.kind) # "ok" ->
                    \* lines 113-123: _get_field raises outside any try
                    /\ pc' = "raised" /\ raised' = MissingFieldError("architect")
                    /\ UNCHANGED <<last_bundle, last_valid_bundle, last_error, steps,
                                   result>>
              [] out.kind # "raise" /\ GetField(out.kind) = "ok" /\ verdict # "ok" ->
                    \* lines 127-137
                    /\ last_bundle' = RefineNextLastBundle(b, verdict)
                    /\ last_valid_bundle' = RefineNextLastValid(last_valid_bundle, b, verdict)
                    /\ last_error' = verdict
                    /\ steps' = Append(steps, VerticalStep(i + 1, b, NoQA, None, verdict))
                    /\ UNCHANGED <<pc, result, raised>>
              [] out.kind # "raise" /\ GetField(out.kind) = "ok" /\ verdict = "ok" ->
                    \* lines 138-145
                    /\ last_error' = None
                    /\ steps' = Append(steps, VerticalStep(i + 1, b, NoQA, None, None))
                    /\ IF RefineIsStable(last_valid_bundle, b)
                       THEN /\ pc' = "returned"
                            /\ result' = BundleResult(b, i + 1, TRUE, steps')
                            /\ UNCHANGED <<last_bundle, last_valid_bundle, raised>>
                       ELSE /\ last_bundle' = RefineNextLastBundle(b, verdict)
                            /\ last_valid_bundle' =
                                  RefineNextLastValid(last_valid_bundle, b, verdict)
                            /\ UNCHANGED <<pc, result, raised>>
    /\ UNCHANGED <<op, max_iters>>
    /\ UNCHANGED executeVars
    /\ UNCHANGED nonLoopVars

\* lines 146-157: the cap is reached.
RefineExhausted ==
    /\ op = "refine" /\ pc = "loop" /\ i >= max_iters
    /\ IF last_valid_bundle = NoBundle
       THEN /\ pc' = "raised"
            /\ raised' = RefineError(last_error)
            /\ UNCHANGED result
       ELSE /\ pc' = "returned"
            /\ result' = BundleResult(last_valid_bundle, max_iters, FALSE, steps)
            /\ UNCHANGED raised
    /\ UNCHANGED <<op, max_iters, i, steps, gen_log>>
    /\ UNCHANGED bundleVars
    /\ UNCHANGED executeVars
    /\ UNCHANGED nonLoopVars

-----------------------------------------------------------------------------
(* MPPAdapterPipeline.build_bundle *)

\* build_bundle, lines 164-166
BuildBundleCall ==
    /\ pc = "idle"
    /\ \E cap \in 0..MaxIters :
        /\ op' = "build_bundle" /\ pc' = "loop"
        /\ max_iters' = cap /\ i' = 0
        /\ last_bundle' = NoBundle
        /\ steps' = <<>> /\ prompts' = <<>>
    /\ UNCHANGED <<last_valid_bundle, last_error, result, raised, gen_log>>
    /\ UNCHANGED executeVars
    /\ UNCHANGED nonLoopVars

\* lines 167-188: one pass of the loop body.  Nothing is caught here: an architect
\* exception, a missing field and a validation error all leave the call.
BuildBundleIteration ==
    /\ op = "build_bundle" /\ pc = "loop" /\ i < max_iters
    /\ i' = i + 1
    /\ prompts' = Append(prompts, RefinedGoalAdapter(UserGoal, last_bundle))
    /\ \E out \in ArchitectOutcomes :
        LET b == normalize_mpp_bundle(out.bundle)
            verdict == validate_bundle(b)
        IN  /\ gen_log' = Append(gen_log, Invocation("architect", out))
            /\ CASE out.kind = "raise" ->
                    /\ pc' = "raised" /\ raised' = GeneratorError("architect")
                    /\ UNCHANGED <<last_bundle, steps, result>>
              [] out.kind # "raise" /\ GetField(out.kind) # "ok" ->
                    /\ pc' = "raised" /\ raised' = MissingFieldError("architect")
                    /\ UNCHANGED <<last_bundle, steps, result>>
              [] out.kind # "raise" /\ GetField(out.kind) = "ok" /\ verdict # "ok" ->
                    /\ pc' = "raised"
                    /\ raised' = Exception("ValueError", "validate_bundle", verdict)
                    /\ UNCHANGED <<last_bundle, steps, result>>
              [] out.kind # "raise" /\ GetField(out.kind) = "ok" /\ verdict = "ok" ->
                    /\ steps' = Append(steps, VerticalStep(i + 1, b, NoQA, None, None))
                    /\ IF last_bundle = b
                       THEN /\ pc' = "returned"
                            /\ result' = BundleResult(b, i + 1, TRUE, steps')
                            /\ UNCHANGED <<last_bundle, raised>>
                       ELSE /\ last_bundle' = b
                            /\ UNCHANGED <<pc, result, raised>>
    /\ UNCHANGED <<op, max_iters, last_valid_bundle, last_error>>
    /\ UNCHANGED executeVars
    /\ UNCHANGED nonLoopVars

\* lines 189-194: "last_bundle or {}" is returned without a validity test.
BuildBundleExhausted ==
    /\ op = "build_bundle" /\ pc = "loop" /\ i >= max_iters
    /\ pc' = "returned"
    /\ result' = BundleResult(IF last_bundle = NoBundle THEN EmptyBundle ELSE last_bundle,
                              max_iters, FALSE, steps)
    /\ UNCHANGED <<op, max_iters, i, steps, raised, gen_log>>
    /\ UNCHANGED bundleVars
    /\ UNCHANGED executeVars
    /\ UNCHANGED nonLoopVars

-----------------------------------------------------------------------------
(* MPPAdapterPipeline.execute *)

\* lines 203-218: normalize and validate the bundle, set the locals, require a QA
\* predictor in open-world mode.  Both failures happen before the try block.
ExecuteCall ==
    /\ pc = "idle"
    /\ \E b \in ExecuteBundles, cap \in 0..MaxIters,
          ow \in BOOLEAN, er \in BOOLEAN, hq \in BOOLEAN, cb \in BOOLEAN :
        LET verdict == validate_bundle(normalize_mpp_bundle(b))
        IN  /\ op' = "execute"
            /\ max_iters' = cap /\ i' = 0
            /\ bundle' = normalize_mpp_bundle(b)
            /\ open_world' = ow /\ expect_reasoning' = er
            /\ has_qa' = hq /\ has_feedback_cb' = cb
            /\ iterations' = cap
            /\ IF verdict # "ok"
               THEN /\ pc' = "raised"
                    /\ raised' = Exception("ValueError", "validate_bundle", verdict)
               ELSE IF ow /\ ~hq
               THEN /\ pc' = "raised"
                    /\ raised' = Exception("ValueError", "execute",
                                           "open_world execution requires a QA predictor.")
               ELSE /\ pc' = "loop"
                    /\ UNCHANGED raised
    /\ steps' = <<>>
    /\ UNCHANGED <<result, gen_log, last_response, last_comparable, qa_result, qa_passed,
                   reasoning, stable, final_response, qa_feedback, executor_calls,
                   qa_calls, feedbacks>>
    /\ UNCHANGED bundleVars
    /\ UNCHANGED nonLoopVars

\* lines 222-223: the callback receives qa_feedback before the executor runs.
ExecuteDeliver(fbs, fb, ow, cb) == IF ow /\ cb THEN Append(fbs, fb) ELSE fbs

\* Faulty variant of ExecuteFinally: no finally block.
ExecuteFinallySkipped(fbs, cb) == fbs

\* lines 273-275: the finally block delivers None.
ExecuteFinally(fbs, cb) == IF cb THEN Append(fbs, NoFeedback) ELSE fbs

\* Faulty variant of ExecuteRunsQA: QA runs whenever a QA predictor is configured.
ExecuteRunsQAWhenConfigured(ow, hq) == hq

\* line 243: QA runs in open-world mode only.
ExecuteRunsQA(ow, hq) == ow /\ hq

\* Faulty variant of ExecuteFeedback: last_response, the response of the pass
\* before, in place of this pass's response.
ExecuteFeedbackStale(qaResult, response) ==
    Feedback(qaResult.verdict, qaResult.issues, last_response)

\* lines 251-255
ExecuteFeedback(qaResult, response) ==
    Feedback(qaResult.verdict, qaResult.issues, response)

\* Faulty variant of ExecuteIsStable: a missing last_comparable (None, the first
\* pass) counts as a match.
ExecuteIsStableOrFirst(lastComparable, comparable) ==
    lastComparable = NoResponse \/ lastComparable = comparable

\* line 266
ExecuteIsStable(lastComparable, comparable) == lastComparable = comparable

\* An exception leaves the loop: the finally block runs and the call raises.
ExecuteRaises(exc, delivered, log, reason, qaCalls) ==
    /\ pc' = "raised" /\ raised' = exc
    /\ feedbacks' = ExecuteFinally(delivered, has_feedback_cb)
    /\ gen_log' = log
    /\ reasoning' = reason
    /\ qa_calls' = qaCalls
    /\ UNCHANGED <<result, steps, last_response, last_comparable, qa_result, qa_passed,
                   stable, iterations, final_response, qa_feedback>>

\* break: the finally block runs, then lines 277-288 build the result.
ExecuteBreaks(response, delivered, log, reason, qaCalls, qaResult, qaPassed, ss, fb) ==
    /\ pc' = "returned"
    /\ stable' = TRUE /\ iterations' = i + 1 /\ final_response' = response
    /\ feedbacks' = ExecuteFinally(delivered, has_feedback_cb)
    /\ gen_log' = log
    /\ reasoning' = reason
    /\ qa_calls' = qaCalls
    /\ qa_result' = qaResult /\ qa_passed' = qaPassed
    /\ steps' = ss
    /\ qa_feedback' = fb
    /\ result' = ExecutionResult(response, reason, i + 1, TRUE, qaResult, qaPassed, ss)
    /\ UNCHANGED <<raised, last_response, last_comparable>>

\* lines 221-272: one pass of the loop body.
ExecuteIteration ==
    /\ op = "execute" /\ pc = "loop" /\ i < max_iters
    /\ i' = i + 1
    /\ executor_calls' = executor_calls + 1
    /\ \E ex \in ExecutorOutcomes :
        LET delivered == ExecuteDeliver(feedbacks, qa_feedback, open_world, has_feedback_cb)
            log1 == Append(gen_log, Invocation("executor", ex))
            response == ex.final_response
            reason == ExtractReasoning(ex)
            comparable == NormalizeResponseForStability(response)
        IN  IF ex.kind = "raise"
            THEN \* line 224: no except clause, the exception propagates
                 ExecuteRaises(GeneratorError("executor"), delivered, log1, reasoning,
                               qa_calls)
            ELSE IF GetField(ex.kind) # "ok"
            THEN \* line 231
                 ExecuteRaises(MissingFieldError("executor"), delivered, log1, reasoning,
                               qa_calls)
            ELSE IF expect_reasoning /\ reason = None
            THEN \* lines 234-239
                 ExecuteRaises(Exception("ValueError", "execute",
                                         "no reasoning was returned"),
                               delivered, log1, reason, qa_calls)
            ELSE IF ExecuteRunsQA(open_world, has_qa)
            THEN \* lines 243-255
                 \E qa \in QAOutcomes :
                    LET log2 == Append(log1, Invocation("qa", qa))
                        qaRes == QAResult(qa.verdict, qa.issues)
                        fb == ExecuteFeedback(qaRes, response)
                        ss == Append(steps, VerticalStep(i + 1, response, qaRes,
                                                         Bool(FALSE), None))
                    IN  IF qa.kind = "raise"
                        THEN ExecuteRaises(GeneratorError("qa"), delivered, log2, reason,
                                           qa_calls + 1)
                        ELSE IF GetField(qa.kind) # "ok"
                        THEN ExecuteRaises(MissingFieldError("qa"), delivered, log2,
                                           reason, qa_calls + 1)
                        ELSE IF QAPassedOf(qaRes)
                        THEN \* lines 246-250: break before the step is appended
                             ExecuteBreaks(response, delivered, log2, reason,
                                           qa_calls + 1, qaRes, Bool(TRUE), steps,
                                           qa_feedback)
                        ELSE IF ExecuteIsStable(last_comparable, comparable)
                        THEN \* lines 257-270
                             ExecuteBreaks(response, delivered, log2, reason,
                                           qa_calls + 1, qaRes, Bool(FALSE), ss, fb)
                        ELSE \* lines 257-272
                             /\ qa_result' = qaRes /\ qa_passed' = Bool(FALSE)
                             /\ qa_feedback' = fb
                             /\ steps' = ss
                             /\ last_response' = response
                             /\ last_comparable' = comparable
                             /\ feedbacks' = delivered
                             /\ gen_log' = log2
                             /\ reasoning' = reason
                             /\ qa_calls' = qa_calls + 1
                             /\ UNCHANGED <<pc, result, raised, stable, iterations,
                                            final_response>>
            ELSE LET ss == Append(steps, VerticalStep(i + 1, response, qa_result,
                                                      qa_passed, None))
                 IN  IF ExecuteIsStable(last_comparable, comparable)
                     THEN \* lines 257-270
                          ExecuteBreaks(response, delivered, log1, reason, qa_calls,
                                        qa_result, qa_passed, ss, qa_feedback)
                     ELSE \* lines 257-272
                          /\ steps' = ss
                          /\ last_response' = response
                          /\ last_comparable' = comparable
                          /\ feedbacks' = delivered
                          /\ gen_log' = log1
                          /\ reasoning' = reason
                          /\ UNCHANGED <<pc, result, raised, stable, iterations,
                                         final_response, qa_result, qa_passed,
                                         qa_feedback, qa_calls>>
    /\ UNCHANGED <<op, max_iters, open_world, expect_reasoning, has_qa, has_feedback_cb,
                   bundle>>
    /\ UNCHANGED bundleVars
    /\ UNCHANGED nonLoopVars

\* Faulty variant of ExecuteFinalResponse: lines 277-278 left out, final_response
\* keeps its initial value "".
ExecuteFinalResponseInitial(lastResponse) == EmptyResponse

\* lines 277-278: final_response = last_response or "".
ExecuteFinalResponse(lastResponse) ==
    IF lastResponse = NoResponse THEN EmptyResponse ELSE lastResponse

\* The loop ran to its cap: the finally block, then lines 277-288 with
\* final_response = last_response or "".
ExecuteExhausted ==
    /\ op = "execute" /\ pc = "loop" /\ i >= max_iters
    /\ pc' = "returned"
    /\ feedbacks' = ExecuteFinally(feedbacks, has_feedback_cb)
    /\ final_response' = ExecuteFinalResponse(last_response)
    /\ result' = ExecutionResult(final_response', reasoning, iterations, stable,
                                 qa_result, qa_passed, steps)
    /\ UNCHANGED <<op, max_iters, i, steps, raised, gen_log, open_world, expect_reasoning,
                   has_qa, has_feedback_cb, bundle, last_response, last_comparable,
                   qa_result, qa_passed, reasoning, stable, iterations, qa_feedback,
                   executor_calls, qa_calls>>
    /\ UNCHANGED bundleVars
    /\ UNCHANGED nonLoopVars

-----------------------------------------------------------------------------
(* _normalize_response_for_stability on its own *)

\* lines 118-135, applied to two texts as the loop applies it to consecutive
\* responses (line 241).
NormalizeResponses ==
    /\ pc = "idle"
    /\ \E r1 \in StabilityResponses, r2 \in StabilityResponses :
        /\ responses' = <<r1, r2>>
        /\ comparables' = <<NormalizeResponseForStability(r1),
                            NormalizeResponseForStability(r2)>>
    /\ op' = "normalize" /\ pc' = "returned"
    /\ UNCHANGED <<loopLocals, validatorVars, longitudinalVars, forwardVars, pureVars>>

-----------------------------------------------------------------------------
(* MPPLongitudinalRefiner.refine *)

\* refine, lines 271-285: extract the blocks, apply the overrides, raise when there
\* is no block, render and score the baseline.  An exception of score_function
\* leaves the call.
LongitudinalRefineCall ==
    /\ pc = "idle"
    /\ \E template \in LongitudinalTemplates, overrides \in InitialOverrides,
          cap \in 0..MaxIters, max \in BOOLEAN, accepts \in BOOLEAN,
          scored \in ScoreOutcomes :
        LET blocks == MergeBlocks(extract_mutable_blocks(template), overrides)
            rendered == render_mutable_template(template, blocks)
            baseline == ScoreOf(scored, 1)
        IN  /\ op' = "longitudinal_refine"
            /\ base_template' = template
            /\ max_iters' = cap /\ i' = 0
            /\ maximize' = max /\ mutate_accepts_traces' = accepts
            /\ current_blocks' = blocks
            /\ mutate_log' = <<>>
            /\ IF DOMAIN blocks = {}
               THEN /\ pc' = "raised" /\ raised' = NoMutableBlocksError
                    /\ score_log' = <<>>
                    /\ UNCHANGED <<current_traces, best_template, best_score,
                                   best_blocks, history>>
               ELSE /\ score_log' = <<ScoreCall(rendered, blocks, scored)>>
                    /\ IF scored.kind = "raise"
                       THEN /\ pc' = "raised" /\ raised' = GeneratorError("score_function")
                            /\ best_template' = rendered
                            /\ UNCHANGED <<current_traces, best_score, best_blocks,
                                           history>>
                       ELSE /\ pc' = "loop" /\ raised' = NoError
                            /\ best_template' = rendered
                            /\ best_score' = baseline.score
                            /\ current_traces' = baseline.traces
                            /\ history' = <<LongitudinalStep(0, rendered, baseline.score)>>
                            /\ best_blocks' = blocks
    /\ UNCHANGED result
    /\ UNCHANGED verticalVars

\* refine, lines 287-308: one pass of the loop.  Mutate the current blocks, merge,
\* render, score, record the step, and keep the candidate when it is better.  An
\* exception of mutate_function or score_function leaves the call.
LongitudinalIteration ==
    /\ pc = "loop" /\ op = "longitudinal_refine"
    /\ LongitudinalHasNext(i, max_iters)
    /\ \E mutated \in MutateOutcomes, scored \in ScoreOutcomes :
        LET called == Append(mutate_log,
                             MutateCall(current_blocks, current_traces,
                                        mutate_accepts_traces))
            merged_blocks == MergeBlocks(current_blocks, mutated.blocks)
            candidate_template == render_mutable_template(base_template, merged_blocks)
            candidate == ScoreOf(scored, Len(score_log) + 1)
            accepted == IsBetter(candidate.score, best_score, maximize)
        IN  /\ mutate_log' = called
            /\ IF mutated.kind = "raise"
               THEN /\ pc' = "raised" /\ raised' = GeneratorError("mutate_function")
                    /\ UNCHANGED <<i, score_log, history, best_score, best_template,
                                   current_blocks, current_traces, best_blocks>>
               ELSE /\ score_log' = Append(score_log,
                                           ScoreCall(candidate_template, merged_blocks,
                                                     scored))
                    /\ IF scored.kind = "raise"
                       THEN /\ pc' = "raised"
                            /\ raised' = GeneratorError("score_function")
                            /\ UNCHANGED <<i, history, best_score, best_template,
                                           current_blocks, current_traces, best_blocks>>
                       ELSE /\ pc' = "loop" /\ i' = i + 1
                            /\ history' = Append(history,
                                                 LongitudinalStep(i + 1, candidate_template,
                                                                  candidate.score))
                            /\ best_score' = IF accepted THEN candidate.score
                                             ELSE best_score
                            /\ best_template' = IF accepted THEN candidate_template
                                                ELSE best_template
                            /\ current_blocks' = IF accepted THEN merged_blocks
                                                 ELSE current_blocks
                            /\ current_traces' = IF accepted THEN candidate.traces
                                                 ELSE current_traces
                            /\ best_blocks' = IF accepted THEN merged_blocks
                                              ELSE best_blocks
                            /\ UNCHANGED raised
    /\ UNCHANGED <<op, max_iters, result, base_template, maximize, mutate_accepts_traces>>
    /\ UNCHANGED verticalVars

\* refine, lines 310-316: the loop is over.
LongitudinalReturn ==
    /\ pc = "loop" /\ op = "longitudinal_refine"
    /\ ~LongitudinalHasNext(i, max_iters)
    /\ pc' = "returned"
    /\ result' = LongitudinalResult(best_template, best_score, Len(history) - 1, history,
                                    best_blocks)
    /\ UNCHANGED <<op, max_iters, i, raised, longitudinalVars>>
    /\ UNCHANGED verticalVars

-----------------------------------------------------------------------------
(* MPPAutoAdapter.forward *)

\* forward, lines 144-175: the caps and the locals before the loop.  self.qa is
\* never None (the constructor installs a default), so line 199 does not raise.
ForwardCall ==
    /\ pc = "idle"
    /\ \E ow \in BOOLEAN, cap \in 0..MaxCycles, executorCap \in ExecutorIterCaps :
        /\ open_world' = ow
        /\ bundle_iters' = cap
        /\ executor_iters' = executorCap
    /\ op' = "forward" /\ pc' = "loop"
    /\ previous_bundle' = NoBundle
    /\ feedback_trace' = FeedbackTrace(<<>>)
    /\ feedback' = NoTraceText
    /\ bundle_result' = NoResult /\ exec_result' = NoResult
    /\ architect_cycles' = 0
    /\ bundle_refinements_total' = 0 /\ executor_refinements_total' = 0
    /\ cycles' = <<>>
    /\ UNCHANGED <<result, raised>>
    /\ UNCHANGED forwardUntouched

\* forward, lines 177-233: one cycle.  Refine, execute, decide success; on success
\* leave the loop and return, otherwise append the feedback event and carry the
\* trace text and the bundle to the next cycle.  An exception of refine or
\* execute leaves the call.
ForwardCycle ==
    /\ pc = "loop" /\ op = "forward"
    /\ architect_cycles < bundle_iters
    /\ architect_cycles' = architect_cycles + 1
    /\ \E refined \in RefineResults(bundle_iters, previous_bundle) :
        IF refined.kind = "raise"
        THEN /\ pc' = "raised" /\ raised' = RefineError(ArchitectErrorText)
             /\ cycles' = Append(cycles,
                                 ForwardCycleRecord(previous_bundle, feedback,
                                                    bundle_iters, refined, NoResult))
             /\ UNCHANGED <<result, bundle_result, exec_result, previous_bundle,
                            feedback_trace, feedback, bundle_refinements_total,
                            executor_refinements_total>>
        ELSE
          /\ bundle_result' = refined
          /\ bundle_refinements_total' =
                ForwardAccumulate(bundle_refinements_total, refined.iterations)
          /\ \E executed \in ExecuteResults(executor_iters, open_world) :
              /\ cycles' = Append(cycles,
                                  ForwardCycleRecord(previous_bundle, feedback,
                                                     bundle_iters, refined, executed))
              /\ IF executed.kind = "raise"
                 THEN /\ pc' = "raised" /\ raised' = GeneratorError("executor")
                      /\ UNCHANGED <<result, exec_result, previous_bundle,
                                     feedback_trace, feedback,
                                     executor_refinements_total>>
                 ELSE
                   /\ exec_result' = executed
                   /\ executor_refinements_total' =
                        ForwardAccumulate(executor_refinements_total,
                                          executed.iterations)
                   /\ IF ForwardSuccess(open_world, executed)
                      THEN /\ pc' = "returned"
                           /\ result' =
                                Prediction(refined, executed, architect_cycles + 1,
                                    ForwardAccumulate(bundle_refinements_total,
                                                      refined.iterations),
                                    ForwardAccumulate(executor_refinements_total,
                                                      executed.iterations),
                                    open_world)
                           /\ UNCHANGED <<raised, previous_bundle, feedback_trace,
                                          feedback>>
                      ELSE /\ pc' = "loop"
                           /\ feedback_trace' =
                                AppendEvent(feedback_trace, FeedbackEvent(executed))
                           /\ feedback' =
                                to_prompt_text(AppendEvent(feedback_trace,
                                                           FeedbackEvent(executed)))
                           /\ previous_bundle' = refined.bundle
                           /\ UNCHANGED <<result, raised>>
    /\ UNCHANGED <<op, open_world, bundle_iters, executor_iters>>
    /\ UNCHANGED forwardUntouched

\* forward, lines 235-256: the cap is reached.  Without any cycle there is no
\* result to return.
ForwardExhausted ==
    /\ pc = "loop" /\ op = "forward"
    /\ architect_cycles >= bundle_iters
    /\ IF bundle_result = NoResult \/ exec_result = NoResult
       THEN /\ pc' = "raised" /\ raised' = ForwardNoResultError
            /\ UNCHANGED result
       ELSE /\ pc' = "returned"
            /\ result' = Prediction(bundle_result, exec_result, architect_cycles,
                                    bundle_refinements_total,
                                    executor_refinements_total, open_world)
            /\ UNCHANGED raised
    /\ UNCHANGED <<op, open_world, forwardVars>>
    /\ UNCHANGED forwardUntouched

-----------------------------------------------------------------------------
(* validate_mpp_bundle on its own *)

\* validate_mpp_bundle, lines 26-41, called with a base bundle changed by a set of
\* faults; it returns None or raises.
ValidateBundle ==
    /\ pc = "idle"
    /\ \E base \in BaseBundles, fs \in FaultSets(MaxFaults) :
        /\ arg_faults' = fs
        /\ arg_bundle' = ApplyFaults(base, fs, 1)
        /\ validation' = validate_mpp_bundle(ApplyFaults(base, fs, 1))
        /\ pc' = IF validate_mpp_bundle(ApplyFaults(base, fs, 1)) = Valid
                 THEN "returned" ELSE "raised"
    /\ op' = "validate_mpp_bundle"
    /\ UNCHANGED <<source_bundle, normalized>>
    /\ UNCHANGED <<loopLocals, normalizeVars, longitudinalVars, forwardVars, pureVars>>

\* normalize_mpp_bundle followed by validate_bundle, as refine (lines 113-126),
\* build_bundle (mpp_adapter.py 181-182) and execute (203-205) call them, on a
\* bundle whose specification and payload are each a value or its json.dumps text
\* (test_validations.py 33-41).
NormalizeBundle ==
    /\ pc = "idle"
    /\ \E base \in BaseBundles, fs \in FaultSets(1), specAsText, payloadAsText \in BOOLEAN :
        LET B == ApplyFaults(base, fs, 1)
            raw == [B EXCEPT !.spec_type = IF specAsText THEN JsonDumps(@) ELSE @,
                             !.payload_type = IF payloadAsText THEN JsonDumps(@) ELSE @]
        IN  /\ arg_faults' = fs
            /\ source_bundle' = B
            /\ arg_bundle' = raw
            /\ normalized' = NormalizeBundleValue(raw)
            /\ validation' = validate_mpp_bundle(NormalizeBundleValue(raw))
            /\ pc' = IF validate_mpp_bundle(NormalizeBundleValue(raw)) = Valid
                     THEN "returned" ELSE "raised"
    /\ op' = "normalize_mpp_bundle"
    /\ UNCHANGED <<loopLocals, normalizeVars, longitudinalVars, forwardVars, pureVars>>

\* list_mutable_blocks, extract_mutable_blocks and render_mutable_template
\* (template_tokens.py 48-69) applied to one template, and render applied to
\* the template with the blocks extract returned for it.
TemplateFunctions ==
    /\ pc = "idle"
    /\ \E text \in TemplateTexts(MaxPieces), values \in TemplateReplacements :
        /\ template_arg' = text
        /\ replacements_arg' = values
        /\ listed' = list_mutable_blocks(text)
        /\ extracted' = ExtractMutableBlocksText(text)
        /\ rendered_text' = RenderMutableTemplateText(text, values)
        /\ rerendered' = RenderMutableTemplateText(text, ExtractMutableBlocksText(text).value)
        /\ pc' = IF ParseBlocksFrom(text, 1).error = None THEN "returned" ELSE "raised"
    /\ op' = "template_tokens"
    /\ UNCHANGED <<loopLocals, normalizeVars, validatorVars, longitudinalVars, forwardVars>>
    /\ UNCHANGED <<metricVars, benchVars>>

\* TraceCostMetric(...).score(traces), metrics.py 24-58
MetricScore ==
    /\ pc = "idle"
    /\ \E m \in Metrics, traces \in MetricTraceSets :
        /\ metric' = m
        /\ metric_traces' = traces
        /\ metric_score' = TraceCostScore(m, traces)
    /\ op' = "score" /\ pc' = "returned"
    /\ UNCHANGED <<loopLocals, normalizeVars, validatorVars, longitudinalVars, forwardVars>>
    /\ UNCHANGED <<templateVars, benchVars>>

-----------------------------------------------------------------------------
Next ==
    \/ RefineCall
    \/ RefineIteration
    \/ RefineExhausted
    \/ BuildBundleCall
    \/ BuildBundleIteration
    \/ BuildBundleExhausted
    \/ ExecuteCall
    \/ ExecuteIteration
    \/ ExecuteExhausted
    \/ NormalizeResponses
    \/ ValidateBundle
    \/ NormalizeBundle
    \/ TemplateFunctions
    \/ MetricScore
    \/ LongitudinalRefineCall
    \/ LongitudinalIteration
    \/ LongitudinalReturn
    \/ ForwardCall
    \/ ForwardCycle
    \/ ForwardExhausted
    \/ DefaultMutatorRefine
    \/ DefaultMutatorPass
    \/ CreateChatCompletionCall
    \/ PostRequestAttempt

Spec == Init /\ [][Next]_vars

\* A call that has started runs on: each statement of the running call is executed,
\* and every generator invocation returns or raises.
FairSpec == Spec /\ WF_vars(Next)

-----------------------------------------------------------------------------
(* Properties of the bundle loop *)

\* The bundle refine was called with as previous_bundle: the first prompt shows it.
SuppliedPreviousBundle == IF Len(prompts) = 0 THEN last_bundle ELSE prompts[1].previous_bundle

\* Step k records a bundle that passed validation.
StepValidated(k) == steps[k].output # NoBundle /\ steps[k].error = None

\* Step k records a bundle that failed validation.
StepInvalid(k) == steps[k].output # NoBundle /\ steps[k].error # None

\* The validated bundles of the call before pass k, oldest first, recomputed from
\* the call's record: the supplied previous_bundle when it validates, then the
\* outputs of the validated steps.
RECURSIVE ValidatedBefore(_)
ValidatedBefore(k) ==
    IF k <= 1
    THEN IF SuppliedPreviousBundle # NoBundle /\ IsValid(SuppliedPreviousBundle)
         THEN <<SuppliedPreviousBundle>> ELSE <<>>
    ELSE IF StepValidated(k - 1)
         THEN Append(ValidatedBefore(k - 1), steps[k - 1].output)
         ELSE ValidatedBefore(k - 1)

LastValidatedBefore(k) ==
    LET v == ValidatedBefore(k) IN IF Len(v) = 0 THEN NoBundle ELSE v[Len(v)]

\* C1: in refine, a pass k whose normalized bundle validates and equals the last
\* validated bundle (of an earlier pass, or the valid previous_bundle) is the last
\* pass: refine has returned that bundle with stable = TRUE and iterations = k, and
\* the architect was invoked exactly k times.
C1_StableReturnsAtOnce ==
    op = "refine" =>
        \A k \in 1..Len(steps) :
            (StepValidated(k) /\ steps[k].output = LastValidatedBefore(k)) =>
                /\ pc = "returned"
                /\ result = BundleResult(steps[k].output, k, TRUE, steps)
                /\ Len(steps) = k
                /\ Len(prompts) = k
                /\ Len(gen_log) = k

C1_Witness ==
    /\ op = "refine" /\ pc = "returned" /\ result.stable
    /\ result.iterations = 2 /\ max_iters = 3
    /\ StepValidated(1) /\ steps[2].output = steps[1].output

\* The exhaustion rule of a bundle loop, for the methods in ops.  A call that has
\* reached its cap with no bundle validated has raised and returned no result; a
\* returned unstable result carries the most recently validated bundle and
\* iterations = cap; no returned BundleResult carries a bundle that fails validation.
BundleLoopExhaustion(ops) ==
    op \in ops =>
        /\ (/\ pc \in {"returned", "raised"} /\ i >= max_iters
            /\ LastValidatedBefore(Len(steps) + 1) = NoBundle) =>
                (pc = "raised" /\ result = NoResult)
        /\ pc = "returned" =>
              /\ IsValid(result.bundle)
              /\ ~result.stable =>
                    /\ result.iterations = max_iters
                    /\ result.bundle = LastValidatedBefore(Len(steps) + 1)

\* C2: the exhaustion rule holds of both bundle loops, refine and build_bundle,
\* for every cap and every architect behaviour.
C2_ExhaustionReturnsValidated == BundleLoopExhaustion({"refine", "build_bundle"})

\* The exhaustion rule for refine alone.
C2_RefineReturnsValidated == BundleLoopExhaustion({"refine"})

\* C3: in refine, a bundle that fails validation at pass k is recorded as the step
\* {iteration = k, output = the bundle, error = its validation error}; the call is
\* not aborted (below the cap the next pass is due); the prompt of pass k + 1 shows that bundle as previous bundle with
\* that error as feedback; and last_valid_bundle never holds an invalid bundle.
C3_InvalidDraftFeedsNextPrompt ==
    op = "refine" =>
        /\ pc = "loop" => (Len(steps) = i /\ Len(prompts) = i)
        /\ last_valid_bundle = NoBundle \/ IsValid(last_valid_bundle)
        /\ \A k \in 1..Len(gen_log) :
              (gen_log[k].kind = "ok" /\ k <= Len(steps) /\ ~StepValidated(k)) =>
                  StepInvalid(k)
        /\ \A k \in 1..Len(steps) :
              StepInvalid(k) =>
                  /\ steps[k].iteration = k
                  /\ ~IsValid(steps[k].output)
                  /\ steps[k].error = validate_bundle(steps[k].output)
                  /\ last_valid_bundle # steps[k].output
                  /\ (k = Len(prompts) /\ k < max_iters) => pc = "loop"
                  /\ k < Len(prompts) =>
                        /\ prompts[k + 1].previous_bundle = steps[k].output
                        /\ prompts[k + 1].feedback = steps[k].error

C3_Witness ==
    /\ op = "refine" /\ Len(prompts) >= 2
    /\ StepInvalid(1)
    /\ prompts[2].previous_bundle = steps[1].output
    /\ prompts[2].feedback = steps[1].error

-----------------------------------------------------------------------------
(* Properties of the generator failures *)

\* The loop pass in which invocation k of gen_log happened.
PassOf(k) == Cardinality({j \in 1..k : gen_log[j].who # "qa"})

\* C4: in refine and execute, an exception raised by the architect / executor in a
\* pass below the cap is recorded as a step carrying the error text and does not
\* leave the call: the loop goes on to its next pass.
C4_GeneratorFailureRetried ==
    op \in {"refine", "execute"} =>
        \A k \in 1..Len(gen_log) :
            (/\ gen_log[k].who \in {"architect", "executor"}
             /\ gen_log[k].kind = "raise"
             /\ PassOf(k) < max_iters) =>
                /\ raised # GeneratorError(gen_log[k].who)
                /\ \E n \in 1..Len(steps) :
                      steps[n].iteration = PassOf(k) /\ steps[n].error # None
                /\ pc = "loop" \/ k < Len(gen_log)

\* The same statement for the architect call of refine alone.
C4_RefineArchitectFailureRetried ==
    op = "refine" =>
        \A k \in 1..Len(gen_log) :
            gen_log[k].kind = "raise" =>
                /\ raised # GeneratorError("architect")
                /\ k <= Len(steps)
                /\ steps[k] = VerticalStep(k, NoBundle, NoQA, None, ArchitectErrorText)
                /\ (k = Len(gen_log) /\ k < max_iters) => pc = "loop"

\* C5: a generator output that lacks a required field ends the enclosing call at
\* once with the missing-field error: it is the last generator invocation of the
\* call, whatever budget remains, and no result is returned.
C5_MissingFieldIsFatal ==
    \A k \in 1..Len(gen_log) :
        gen_log[k].kind = "missing" =>
            /\ k = Len(gen_log)
            /\ pc = "raised"
            /\ raised = MissingFieldError(gen_log[k].who)
            /\ result = NoResult

C5_Witness ==
    /\ op = "execute" /\ pc = "raised" /\ i = 1 /\ max_iters = 3
    /\ gen_log[Len(gen_log)].who = "qa" /\ gen_log[Len(gen_log)].kind = "missing"

-----------------------------------------------------------------------------
(* Properties of the execution loop *)

\* A verdict that reads "pass" once trimmed and lower-cased.
IsPassVerdict(verdict) == verdict \in {"pass", " PASS "}

\* Number of QA invocations among the first k invocations.
QACallsUpTo(k) == Cardinality({j \in 1..k : gen_log[j].who = "qa"})

\* C6: open-world execute: a QA pass verdict ends the loop in that pass.  The
\* result has stable = TRUE, qa_passed = TRUE, iterations = the pass number and
\* final_response = the response of that pass; no generator is invoked after it.
C6_PassVerdictEndsLoop ==
    (op = "execute" /\ open_world) =>
        \A k \in 1..Len(gen_log) :
            (/\ gen_log[k].who = "qa" /\ gen_log[k].kind = "ok"
             /\ IsPassVerdict(gen_log[k].out.verdict)) =>
                /\ k = Len(gen_log)
                /\ pc = "returned"
                /\ result.stable
                /\ result.qa_passed = Bool(TRUE)
                /\ result.iterations = PassOf(k)
                /\ result.final_response = gen_log[k - 1].out.final_response
                /\ executor_calls = PassOf(k)
                /\ qa_calls = QACallsUpTo(k)

C6_Witness ==
    /\ op = "execute" /\ open_world /\ pc = "returned"
    /\ result.qa_passed = Bool(TRUE) /\ result.iterations = 2 /\ max_iters = 3

\* C7: open-world execute: after a fail verdict in a pass below the cap the loop
\* goes on to the next pass, and a call ends before its cap only on a pass verdict.
C7_EndsEarlyOnlyOnPass ==
    (op = "execute" /\ open_world) =>
        /\ \A k \in 1..Len(gen_log) :
              (/\ gen_log[k].who = "qa" /\ gen_log[k].kind = "ok"
               /\ gen_log[k].out.verdict = "fail"
               /\ PassOf(k) < max_iters) =>
                  (pc = "loop" \/ k < Len(gen_log))
        /\ (pc = "returned" /\ result.iterations < max_iters) =>
              result.qa_passed = Bool(TRUE)

\* C8: open-world execute with a feedback callback: before executor invocation 1
\* the callback receives None, before invocation n + 1 it receives the feedback
\* {verdict, issues, previous_response} of pass n's QA result and response.
C8_FeedbackIsMostRecentFailure ==
    (op = "execute" /\ open_world /\ has_feedback_cb) =>
        /\ Len(feedbacks) >= executor_calls
        /\ \A n \in 1..executor_calls :
              feedbacks[n] =
                  IF n = 1 THEN NoFeedback
                  ELSE Feedback(gen_log[2 * (n - 1)].out.verdict,
                                gen_log[2 * (n - 1)].out.issues,
                                gen_log[2 * (n - 1) - 1].out.final_response)

C8_Witness ==
    /\ op = "execute" /\ open_world /\ has_feedback_cb /\ executor_calls = 3
    /\ feedbacks[2].set /\ feedbacks[3].set
    /\ feedbacks[3].previous_response # feedbacks[2].previous_response

\* C9: every execute call with a feedback callback that got past its checks and
\* has ended, by a return or by an exception, delivered None to the callback last.
C9_FeedbackSlotReleased ==
    (op = "execute" /\ has_feedback_cb /\ pc \in {"returned", "raised"}
        /\ ~(pc = "raised" /\ i = 0)) =>
        /\ Len(feedbacks) >= 1
        /\ feedbacks[Len(feedbacks)] = NoFeedback

C9_Witness ==
    /\ op = "execute" /\ has_feedback_cb /\ open_world
    /\ pc = "raised" /\ raised = GeneratorError("executor")
    /\ Len(feedbacks) = 3 /\ feedbacks[2].set /\ feedbacks[3] = NoFeedback

\* The normalized response of pass n of a closed-world call.
ComparableOfPass(n) == NormalizeResponseForStability(gen_log[n].out.final_response)

\* Pass n gave the same normalized response as pass n - 1.
RepeatsPrevious(n) == n >= 2 /\ ComparableOfPass(n) = ComparableOfPass(n - 1)

-----------------------------------------------------------------------------
(* Properties of the stability normalization *)

\* The members of a JSON response other than reasoning and rationale.
RemainingFields(r) == {m \in r.members : m[1] # "reasoning" /\ m[1] # "rationale"}

\* C11: two JSON responses normalize to the same comparable value exactly when
\* their fields other than reasoning / rationale are equal, whatever their key
\* order, padding, code fence and reasoning text; and a closed-world execute
\* whose pass n gives a JSON response with the same remaining fields as pass
\* n - 1 returns at pass n with stable = TRUE (unless pass n raised).
C11_EquivalentJsonStabilizes ==
    /\ (op = "normalize" /\ responses[1].json /\ responses[2].json) =>
              (comparables[1] = comparables[2]
                  <=> RemainingFields(responses[1]) = RemainingFields(responses[2]))
    /\ (op = "execute" /\ ~open_world) =>
          \A n \in 2..executor_calls :
              LET r1 == gen_log[n - 1].out.final_response
                  r2 == gen_log[n].out.final_response
              IN  (r1.json /\ r2.json /\ RemainingFields(r1) = RemainingFields(r2)) =>
                      /\ n = executor_calls
                      /\ \/ pc = "raised" /\ raised.origin = "execute"
                         \/ /\ pc = "returned" /\ result.stable
                            /\ result.iterations = n

C11_Witness ==
    /\ op = "execute" /\ ~open_world /\ pc = "returned" /\ result.stable
    /\ result.iterations = 3
    /\ gen_log[2].out.final_response = RespA /\ gen_log[3].out.final_response = RespB

-----------------------------------------------------------------------------
(* Properties of the execution loop: exhaustion and missing reasoning *)

\* The executor invocations of the call, in order.
ExecutorLog == SelectSeq(gen_log, LAMBDA e : e.who = "executor")

\* An executor output without a non-blank reasoning or rationale field.
LacksReasoning(out) ==
    out.reasoning \in {None, "", "  "} /\ out.rationale \in {None, "", "  "}

\* The last generator invocation is one that ends the call with an exception.
LastInvocationFails ==
    /\ Len(gen_log) > 0
    /\ LET e == gen_log[Len(gen_log)]
       IN  \/ e.kind \in {"raise", "missing"}
           \/ e.who = "executor" /\ expect_reasoning /\ LacksReasoning(e.out)

\* C12: execute raises only before its loop or in a pass whose generator fails,
\* never because the cap is reached; a call that returned without stable = TRUE
\* made max_iters passes, reports iterations = max_iters and carries the last
\* pass's response as final_response; and open-world with cap 1 and a fail verdict
\* returns qa_passed = FALSE, iterations = 1 after exactly one QA invocation.
C12_ExhaustionReturnsLastResponse ==
    op = "execute" =>
        /\ (pc = "raised" /\ i > 0) => LastInvocationFails
        /\ (pc = "returned" /\ ~result.stable) =>
              /\ result.iterations = max_iters
              /\ executor_calls = max_iters
              /\ max_iters >= 1 =>
                    result.final_response =
                        ExecutorLog[Len(ExecutorLog)].out.final_response
        /\ (/\ pc = "returned" /\ open_world /\ max_iters = 1
            /\ gen_log[Len(gen_log)].out.verdict = "fail") =>
              /\ result.qa_passed = Bool(FALSE)
              /\ result.iterations = 1
              /\ ~result.stable
              /\ qa_calls = 1 /\ Len(gen_log) = 2

C12_Witness ==
    /\ op = "execute" /\ open_world /\ pc = "returned" /\ max_iters = 1
    /\ gen_log[Len(gen_log)].out.verdict = "fail"
    /\ result.final_response = RespD /\ result.qa_passed = Bool(FALSE)

\* C13: with expect_reasoning set, an executor output that has final_response but
\* no non-blank reasoning / rationale field makes execute raise at once: it is the
\* last generator invocation of the call (no further executor call, no QA call
\* for it), whatever budget remains, and no ExecutionResult is returned.
C13_MissingReasoningIsFatal ==
    (op = "execute" /\ expect_reasoning) =>
        \A k \in 1..Len(gen_log) :
            (/\ gen_log[k].who = "executor" /\ gen_log[k].kind = "ok"
             /\ LacksReasoning(gen_log[k].out)) =>
                /\ k = Len(gen_log)
                /\ pc = "raised"
                /\ raised.type = "ValueError" /\ raised.origin = "execute"
                /\ result = NoResult
                /\ executor_calls = PassOf(k)
                /\ qa_calls = QACallsUpTo(k)

C13_Witness ==
    /\ op = "execute" /\ expect_reasoning /\ open_world /\ pc = "raised"
    /\ max_iters = 3 /\ executor_calls = 2 /\ qa_calls = 1
    /\ gen_log[Len(gen_log)].who = "executor"
    /\ gen_log[Len(gen_log)].out.reasoning = "  "

-----------------------------------------------------------------------------
(* Properties of the stable flag *)

\* A call of one of the three loops has returned stable = TRUE.
ReturnedStable ==
    /\ op \in {"refine", "build_bundle", "execute"}
    /\ pc = "returned" /\ result.stable

\* The outputs of passes n - 1 and n of the call are equal (normalized).
LastTwoOutputsEqual(n) ==
    /\ n >= 2
    /\ op \in {"refine", "build_bundle"} =>
          /\ Len(steps) >= n
          /\ steps[n].output = steps[n - 1].output
    /\ op = "execute" =>
          /\ Len(ExecutorLog) >= n
          /\ NormalizeResponseForStability(ExecutorLog[n].out.final_response)
                = NormalizeResponseForStability(ExecutorLog[n - 1].out.final_response)

\* C17 as stated: stable = TRUE is reported only when the two most recent
\* consecutive passes of the call produced equal (normalized) outputs.
C17_StableMeansTwoEqualOutputs ==
    ReturnedStable => LastTwoOutputsEqual(result.iterations)

\* C17 as amended: a bundle loop reports stable = TRUE only when the bundle
\* validated in its last pass equals the last bundle validated before it (in an
\* earlier pass, not necessarily the one just before, or the valid
\* previous_bundle); execute reports stable = TRUE only when its last two passes
\* gave equal normalized responses or, in open-world mode, the last pass's QA
\* verdict was pass.
C17_StableMeansRepeatOrPass ==
    ReturnedStable =>
        LET n == result.iterations
        IN  /\ n >= 1
            /\ op \in {"refine", "build_bundle"} =>
                  /\ Len(steps) = n
                  /\ StepValidated(n)
                  /\ steps[n].output = LastValidatedBefore(n)
                  /\ result.bundle = steps[n].output
            /\ op = "execute" =>
                  \/ LastTwoOutputsEqual(n)
                  \/ /\ open_world
                     /\ gen_log[Len(gen_log)].who = "qa"
                     /\ gen_log[Len(gen_log)].kind = "ok"
                     /\ IsPassVerdict(gen_log[Len(gen_log)].out.verdict)

C17_Witness ==
    /\ op = "refine" /\ pc = "returned" /\ result.stable /\ result.iterations = 3
    /\ StepValidated(1) /\ StepInvalid(2) /\ steps[3].output = steps[1].output

-----------------------------------------------------------------------------
(* Properties of the bundle validator *)

\* The kind of invariant an error reports: "keys" (missing top-level keys),
\* "version" (meta_protocol_version), "payload" (the payload), "spec" (the
\* specification), "none" (no error).
ErrorClass(e) ==
    IF e = Valid THEN "none"
    ELSE IF e.subject = "bundle" THEN "keys"
    ELSE IF e.subject = "bundle.meta_protocol_version" THEN "version"
    ELSE IF e.subject \in {"bundle.derivative_protocol_payload", "payload"} THEN "payload"
    ELSE "spec"

\* The specification of b violates a structural rule.
ViolatesSpec(b) == b.spec_type # "map" \/ validate_derivative_spec(b.spec) # Valid

\* The payload of b violates a structural rule.
ViolatesPayload(b) == b.payload_type # "map" \/ validate_payload(b.spec, b.payload) # Valid

\* The earliest kind of invariant b violates, in the order keys, version,
\* specification, payload.
FirstViolation(b) ==
    IF ~(REQUIRED_BUNDLE_FIELDS \subseteq b.keys) THEN "keys"
    ELSE IF b.version # "str" THEN "version"
    ELSE IF ViolatesSpec(b) THEN "spec"
    ELSE IF ViolatesPayload(b) THEN "payload"
    ELSE "none"

\* C18: validate_mpp_bundle raises the error of the earliest violated invariant
\* in the order missing top-level keys, non-string meta_protocol_version,
\* specification violations, payload violations; a specification violation is
\* reported before any payload violation.
C18_ErrorsInFixedOrder ==
    op = "validate_mpp_bundle" => ErrorClass(validation) = FirstViolation(arg_bundle)

\* The order the code keeps: missing keys, meta_protocol_version, the
\* specification's type, the payload's type, the specification's structure,
\* the payload's structure.
C18_ErrorsInCodeOrder ==
    op = "validate_mpp_bundle" =>
        \/ ErrorClass(validation) = FirstViolation(arg_bundle)
        \/ /\ arg_bundle.spec_type = "map" /\ arg_bundle.payload_type # "map"
           /\ validate_derivative_spec(arg_bundle.spec) # Valid
           /\ validation = RequireMapping(arg_bundle.payload_type,
                                          "bundle.derivative_protocol_payload")

\* Every tag in the payload of b exists in core_tag_library.
PayloadTagsDeclared(b) ==
    \A k \in 1..Len(b.payload) :
        \E j \in 1..Len(b.spec.library.tags) : b.spec.library.tags[j].name = b.payload[k]

\* Every library tag of b that is not marked required: False is in the payload.
NonOptionalTagsPresent(b) ==
    \A j \in 1..Len(b.spec.library.tags) :
        b.spec.library.tags[j].required # "False" =>
            \E k \in 1..Len(b.payload) : b.payload[k] = b.spec.library.tags[j].name

\* When payload_order is set, the payload iterates in exactly that order.
PayloadInDeclaredOrder(b) ==
    b.spec.payload_order.type # None => b.payload = b.spec.payload_order.items

\* The position of the first payload tag of b whose processor is p (0: none).
FirstUse(b, p) ==
    LET uses == {k \in 1..Len(b.payload) :
                    \E j \in 1..Len(b.spec.library.tags) :
                        /\ b.spec.library.tags[j].name = b.payload[k]
                        /\ b.spec.library.tags[j].processor = p}
    IN  IF uses = {} THEN 0 ELSE CHOOSE k \in uses : \A other \in uses : k <= other

\* When processor_pipeline is set and the schema has "processor": the pipeline
\* lists exactly the processors of the payload's tags, in the order the payload
\* first uses them.
PipelineFollowsPayload(b) ==
    LET pipeline == b.spec.processor_pipeline.items
    IN  (b.spec.processor_pipeline.type # None
            /\ \E k \in 1..Len(b.spec.schema.items) : b.spec.schema.items[k] = "processor")
        => /\ \A k \in 1..Len(pipeline) : FirstUse(b, pipeline[k]) > 0
           /\ \A k \in 1..Len(b.payload) :
                \A j \in 1..Len(b.spec.library.tags) :
                    (b.spec.library.tags[j].name = b.payload[k]
                        /\ b.spec.library.tags[j].processor # None)
                    => \E n \in 1..Len(pipeline) :
                            pipeline[n] = b.spec.library.tags[j].processor
           /\ \A m, n \in 1..Len(pipeline) :
                m < n => FirstUse(b, pipeline[m]) < FirstUse(b, pipeline[n])

\* b passes every check that precedes validate_payload.
WellFormedUpToPayload(b) ==
    /\ REQUIRED_BUNDLE_FIELDS \subseteq b.keys
    /\ b.version = "str"
    /\ b.spec_type = "map"
    /\ b.payload_type = "map"
    /\ validate_derivative_spec(b.spec) = Valid

\* C19 (as stated): a bundle is valid if and only if every payload tag exists in
\* core_tag_library, every non-optional library tag is in the payload and, when
\* payload_order is set, the payload iterates in exactly that order.
C19_ValidIffPayloadAgrees ==
    op = "validate_mpp_bundle" =>
        (validation = Valid <=>
            /\ PayloadTagsDeclared(arg_bundle)
            /\ NonOptionalTagsPresent(arg_bundle)
            /\ PayloadInDeclaredOrder(arg_bundle))

\* C19 (amended): a bundle that has the three top-level keys, a string version,
\* a mapping payload and a specification that passes validate_derivative_spec is
\* valid if and only if every payload tag exists in core_tag_library, every
\* non-optional library tag is in the payload, the payload iterates in exactly
\* payload_order when that is set, and processor_pipeline (when set, with
\* "processor" in the schema) lists exactly the processors of the payload's tags
\* in the order the payload first uses them.
C19_WellFormedValidIffPayloadAgrees ==
    (op = "validate_mpp_bundle" /\ WellFormedUpToPayload(arg_bundle)) =>
        (validation = Valid <=>
            /\ PayloadTagsDeclared(arg_bundle)
            /\ NonOptionalTagsPresent(arg_bundle)
            /\ PayloadInDeclaredOrder(arg_bundle)
            /\ PipelineFollowsPayload(arg_bundle))

\* A well-formed bundle whose payload has the tags of payload_order in another
\* order, with a pipeline that follows the payload, is rejected for its order.
C19_Witness ==
    /\ op = "validate_mpp_bundle"
    /\ WellFormedUpToPayload(arg_bundle)
    /\ PayloadTagsDeclared(arg_bundle)
    /\ NonOptionalTagsPresent(arg_bundle)
    /\ PipelineFollowsPayload(arg_bundle)
    /\ arg_bundle.spec.processor_pipeline.type # None
    /\ ~PayloadInDeclaredOrder(arg_bundle)
    /\ validation.rule = "payload tags do not match payload_order sequence"
    /\ pc = "raised"

\* The payload tags of b that core_tag_library does not declare.
UndeclaredPayloadTags(b) ==
    {b.payload[k] : k \in {n \in 1..Len(b.payload) :
        \A j \in 1..Len(b.spec.library.tags) : b.spec.library.tags[j].name # b.payload[n]}}

\* C20: a bundle that is well formed up to its payload and has payload keys that
\* core_tag_library does not declare is rejected with the error "payload
\* includes unknown tags", which names every such key, whatever payload_order,
\* processor_pipeline or required-tag violation the payload also has.
C20_UnknownPayloadTagsReportedFirst ==
    (op = "validate_mpp_bundle" /\ WellFormedUpToPayload(arg_bundle)
        /\ UndeclaredPayloadTags(arg_bundle) # {}) =>
        /\ pc = "raised"
        /\ validation = ValidationError("ValueError", "payload includes unknown tags",
                                        "payload", UndeclaredPayloadTags(arg_bundle))

\* Two undeclared keys in a payload of a bundle with payload_order and
\* processor_pipeline set: the payload also disagrees with payload_order, and
\* both keys are named.
C20_Witness ==
    /\ op = "validate_mpp_bundle"
    /\ WellFormedUpToPayload(arg_bundle)
    /\ Cardinality(UndeclaredPayloadTags(arg_bundle)) = 2
    /\ arg_bundle.spec.payload_order.type # None
    /\ ~PayloadInDeclaredOrder(arg_bundle)
    /\ validation.names = {"$unknown", "$alien"}
    /\ validation.rule = "payload includes unknown tags"

-----------------------------------------------------------------------------
(* Iteration caps *)

\* Number of invocations of the generator `who` in the running call.
InvocationsOf(who) == Cardinality({k \in 1..Len(gen_log) : gen_log[k].who = who})

\* Every QA invocation directly follows an executor invocation.
QAOncePerExecutorInvocation ==
    \A k \in 1..Len(gen_log) :
        gen_log[k].who = "qa" => (k > 1 /\ gen_log[k - 1].who = "executor")

\* The running call has made no more passes and no more generator calls than its
\* cap allows.
WithinCaps ==
    /\ pc = "loop" => i <= max_iters
    /\ op = "refine" => InvocationsOf("architect") <= max_iters
    /\ op = "execute" =>
        /\ InvocationsOf("executor") <= max_iters
        /\ executor_calls = InvocationsOf("executor")
        /\ qa_calls = InvocationsOf("qa")
        /\ QAOncePerExecutorInvocation
    /\ op = "longitudinal_refine" =>
        /\ Len(mutate_log) <= max_iters
        /\ Len(score_log) <= max_iters + 1
    /\ op = "forward" => architect_cycles <= bundle_iters
    /\ op = "default_mutator" => Len(mutator_calls) <= MaxMutations
    /\ op = "create_chat_completion" =>
        Len(post_log) <= Len(models_to_try) * (retries + 1)

\* The call has returned or raised.
CallEnded == pc \in {"returned", "raised"}

\* C16: the caps are hard upper bounds and every loop terminates.  One refine
\* invokes the architect at most max_iters times; one execute invokes the executor
\* at most max_iters times and QA at most once per executor invocation; one
\* longitudinal refine calls mutate_function at most max_iters times and the score
\* function at most max_iters + 1 times; every call returns or raises.
\* Termination is stated by a variant: a step that stays in a loop has completed
\* one more pass, and the number of passes never exceeds the cap.
C16_CapsBoundEveryLoop ==
    /\ []WithinCaps
    /\ [][(pc = "loop" /\ pc' = "loop") =>
            IF op = "forward" THEN architect_cycles' = architect_cycles + 1
            ELSE IF op = "default_mutator"
            THEN Len(mutator_calls') = Len(mutator_calls) + 1
            ELSE IF op = "create_chat_completion"
            THEN Len(post_log') = Len(post_log) + 1
            ELSE i' = i + 1]_vars

\* Under FairSpec every call returns or raises.
C16_EveryCallEnds == <>CallEnded

\* A longitudinal refine has returned after MaxIters passes: mutate_function was
\* called max_iters times and the score function max_iters + 1 times.
C16_Witness ==
    /\ op = "longitudinal_refine" /\ pc = "returned"
    /\ max_iters = MaxIters
    /\ Len(mutate_log) = max_iters
    /\ Len(score_log) = max_iters + 1

-----------------------------------------------------------------------------
(* Properties of the outer cycle *)

\* Cycle k ran its execution loop to a result.
CycleExecuted(k) == cycles[k].exec_result.kind = "ExecutionResult"

\* Success of cycle k: qa_passed in open-world mode, stable and qa_passed in
\* closed-world mode.
CycleSucceeded(k) ==
    /\ cycles[k].exec_result.qa_passed = "True"
    /\ open_world \/ cycles[k].exec_result.stable

\* The executed cycles that did not succeed.
FailedCycles == {k \in 1..Len(cycles) : CycleExecuted(k) /\ ~CycleSucceeded(k)}

\* The event is derived from the execution result of cycle k.
EventOfCycle(event, k) ==
    /\ event.qa_verdict = cycles[k].exec_result.qa_verdict
    /\ event.executor_iterations = cycles[k].exec_result.iterations
    /\ event.executor_stable = cycles[k].exec_result.stable
    /\ event.kind = IF cycles[k].exec_result.qa_verdict = "fail" THEN "qa_failed"
                    ELSE "executor_nonconvergent"

RefinementsOf(n) == IF n >= 1 THEN n - 1 ELSE 0

\* Sum over the first k cycles of the refinements of the bundle loop.
RECURSIVE BundleRefinementsUpTo(_)
BundleRefinementsUpTo(k) ==
    IF k = 0 THEN 0
    ELSE BundleRefinementsUpTo(k - 1)
            + (IF cycles[k].bundle_result.kind = "BundleResult"
               THEN RefinementsOf(cycles[k].bundle_result.iterations) ELSE 0)

\* Sum over the first k cycles of the refinements of the execution loop.
RECURSIVE ExecutorRefinementsUpTo(_)
ExecutorRefinementsUpTo(k) ==
    IF k = 0 THEN 0
    ELSE ExecutorRefinementsUpTo(k - 1)
            + (IF CycleExecuted(k)
               THEN RefinementsOf(cycles[k].exec_result.iterations) ELSE 0)

\* The accounting of a forward call, in every state of the call.
ForwardAccounting ==
    op = "forward" =>
        /\ architect_cycles <= bundle_iters
        /\ architect_cycles = Len(cycles)
        /\ bundle_refinements_total = BundleRefinementsUpTo(Len(cycles))
        /\ executor_refinements_total = ExecutorRefinementsUpTo(Len(cycles))
        /\ pc = "returned" =>
            /\ architect_cycles >= 1
            /\ result.architect_cycles = architect_cycles
            /\ result.bundle_refinements_total = BundleRefinementsUpTo(Len(cycles))
            /\ result.executor_refinements_total = ExecutorRefinementsUpTo(Len(cycles))
            /\ result.bundle_refinements
                    = RefinementsOf(cycles[Len(cycles)].bundle_result.iterations)
            /\ result.executor_refinements
                    = RefinementsOf(cycles[Len(cycles)].exec_result.iterations)
            /\ result.bundle_refinements_total >= result.bundle_refinements
            /\ result.executor_refinements_total >= result.executor_refinements

-----------------------------------------------------------------------------
(* processor_pipeline consistency *)

\* The processors of the payload's tags of b, each at its first use, in payload
\* order over the first k payload keys: every processor a tag definition names,
\* whether or not tag_definition_schema lists "processor".
RECURSIVE ProcessorsImplied(_, _)
ProcessorsImplied(b, k) ==
    IF k = 0 THEN <<>>
    ELSE LET before == ProcessorsImplied(b, k - 1)
             named == {b.spec.library.tags[j].processor :
                          j \in {n \in 1..Len(b.spec.library.tags) :
                                    b.spec.library.tags[n].name = b.payload[k]}}
                        \ {None}
         IN  IF named = {} \/ named \subseteq SeqToSet(before) THEN before
             ELSE Append(before, CHOOSE p \in named : TRUE)

\* C21 (as stated): whenever processor_pipeline is present, a bundle validates
\* only if the processors implied by its payload tags, taken in payload order,
\* form exactly processor_pipeline: the same set in the same order.
C21_PipelineMatchesPayloadProcessors ==
    (op = "validate_mpp_bundle" /\ validation = Valid
        /\ arg_bundle.spec.processor_pipeline.type # None) =>
        arg_bundle.spec.processor_pipeline.items
            = ProcessorsImplied(arg_bundle, Len(arg_bundle.payload))

\* What the code enforces: the same, for bundles whose tag_definition_schema
\* lists "processor".
C21_PipelineMatchesWhenSchemaHasProcessor ==
    (op = "validate_mpp_bundle" /\ validation = Valid
        /\ arg_bundle.spec.processor_pipeline.type # None
        /\ "processor" \in SeqToSet(arg_bundle.spec.schema.items)) =>
        arg_bundle.spec.processor_pipeline.items
            = ProcessorsImplied(arg_bundle, Len(arg_bundle.payload))

\* With "processor" in the schema, a pipeline naming a processor that no payload
\* tag uses, or listing the processors in another order, is rejected.
C21_SchemaGatedRejections ==
    /\ op = "validate_mpp_bundle"
    /\ WellFormedUpToPayload(arg_bundle)
    /\ "processor" \in SeqToSet(arg_bundle.spec.schema.items)
    /\ validation.rule \in
            {"processor_pipeline includes processors not used by payload",
             "processor_pipeline order does not match payload order"}

-----------------------------------------------------------------------------
(* normalize tolerates pre-serialized fields *)

-----------------------------------------------------------------------------
(* Template functions *)

\* The regions of the template the template functions were applied to.
TemplateBlocks == ParseBlocksFrom(template_arg, 1).value

\* What render puts in the place of region k: the replacement given for its
\* name, or its own content.
RenderedBlockValue(k) ==
    IF TemplateBlocks[k].name \in DOMAIN replacements_arg
    THEN replacements_arg[TemplateBlocks[k].name]
    ELSE TemplateBlocks[k].content

\* Where the text outside the regions that precedes region k starts in the
\* template.
GapStart(k) == IF k = 1 THEN 1 ELSE TemplateBlocks[k - 1].end

\* The length of the rendered text that precedes the value of region k.
RECURSIVE RenderedOffset(_)
RenderedOffset(k) ==
    IF k = 1 THEN TemplateBlocks[1].start - 1
    ELSE RenderedOffset(k - 1) + Len(RenderedBlockValue(k - 1))
            + (TemplateBlocks[k].start - TemplateBlocks[k - 1].end)

\* The part of the rendered text that stands for region k.
RenderedSlice(k) ==
    SubSeq(rendered_text.value, RenderedOffset(k) + 1,
           RenderedOffset(k) + Len(RenderedBlockValue(k)))

\* The length of the rendered text: the values of the regions and the text
\* outside them.
RenderedLength ==
    IF TemplateBlocks = <<>> THEN Len(template_arg)
    ELSE LET n == Len(TemplateBlocks)
         IN  RenderedOffset(n) + Len(RenderedBlockValue(n))
                + (Len(template_arg) + 1 - TemplateBlocks[n].end)

\* C23: when render returns, every region whose name has a replacement stands
\* in the rendered text as exactly that replacement, so N regions sharing one
\* name all carry the one value given for the name.
C23_RenderReplacesEveryOccurrence ==
    (op = "template_tokens" /\ pc = "returned") =>
        \A k \in 1..Len(TemplateBlocks) :
            TemplateBlocks[k].name \in DOMAIN replacements_arg =>
                RenderedSlice(k) = replacements_arg[TemplateBlocks[k].name]

\* Three regions named "a" with contents x, y, x were rendered with a
\* replacement for "a": the result is the replacement three times.
C23_Witness ==
    /\ op = "template_tokens" /\ pc = "returned"
    /\ Len(TemplateBlocks) = 3
    /\ \A k \in 1..3 : TemplateBlocks[k].name = <<"a">>
    /\ TemplateBlocks[1].content # TemplateBlocks[2].content
    /\ <<"a">> \in DOMAIN replacements_arg
    /\ rendered_text.value = <<"v", "v", "v">>

\* C24 (as stated): for every template whose regions are well formed, rendering
\* it with the blocks extract returns for it gives the template again.
C24_RenderOfExtractIsIdentity ==
    (op = "template_tokens" /\ pc = "returned") => rerendered.value = template_arg

\* What the code does: the result is the template again exactly when the
\* template has no region.
C24_IdentityOnlyWithoutRegions ==
    (op = "template_tokens" /\ pc = "returned") =>
        (rerendered.value = template_arg <=> TemplateBlocks = <<>>)

\* C25: when render returns, the text outside the regions is in the rendered
\* text, whole and in order, around the values of the regions; a region whose
\* name has no replacement stands as its own content; a template without
\* regions is returned as it is, with no error.
C25_RenderKeepsTextAndUnreplacedContent ==
    (op = "template_tokens" /\ pc = "returned") =>
        /\ rendered_text.error = None
        /\ Len(rendered_text.value) = RenderedLength
        /\ \A k \in 1..Len(TemplateBlocks) :
            /\ SubSeq(rendered_text.value,
                      RenderedOffset(k) - (TemplateBlocks[k].start - GapStart(k)) + 1,
                      RenderedOffset(k))
                    = SubSeq(template_arg, GapStart(k), TemplateBlocks[k].start - 1)
            /\ TemplateBlocks[k].name \notin DOMAIN replacements_arg =>
                    RenderedSlice(k) = TemplateBlocks[k].content
        /\ TemplateBlocks # <<>> =>
            LET n == Len(TemplateBlocks)
            IN  SubSeq(rendered_text.value,
                       RenderedOffset(n) + Len(RenderedBlockValue(n)) + 1,
                       Len(rendered_text.value))
                    = SubSeq(template_arg, TemplateBlocks[n].end, Len(template_arg))
        /\ TemplateBlocks = <<>> => rendered_text.value = template_arg

\* Text, a region with a replacement, text, a region without one, text.
C25_Witness ==
    /\ op = "template_tokens" /\ pc = "returned"
    /\ Len(TemplateBlocks) = 2
    /\ TemplateBlocks[1].start > 1
    /\ TemplateBlocks[1].name \in DOMAIN replacements_arg
    /\ TemplateBlocks[2].name \notin DOMAIN replacements_arg
    /\ rendered_text.value = <<"t", "v", "z">>

\* A template without regions was rendered with replacements and came back as it
\* was.
C25_WitnessNoRegions ==
    /\ op = "template_tokens" /\ pc = "returned"
    /\ TemplateBlocks = <<>>
    /\ template_arg # <<>>
    /\ replacements_arg # NoTextBlocks
    /\ rendered_text = TemplateOutcome(None, template_arg)

\* The positions of the start tokens of the template.
StartTokens == {k \in 1..Len(template_arg) : template_arg[k] = TOKEN_START}

\* The position of the "}}" that terminates the name of the start token at k
\* (0: the name is not terminated).
NameCloseOf(k) == Find(template_arg, {NAME_CLOSE, TOKEN_END}, k + 1)

\* The name segment of the start token at k, whose name is terminated.
NameSegmentOf(k) ==
    SubSeq(template_arg, k + 1, NameCloseOf(k) - 1)
        \o (IF template_arg[NameCloseOf(k)] = TOKEN_END THEN <<TOKEN_END_HEAD>> ELSE <<>>)

\* The start token at k has an unterminated name, a name that is blank after
\* trimming, or no end token after its name.
MalformedStartToken(k) ==
    \/ NameCloseOf(k) = 0
    \/ StripBlanks(NameSegmentOf(k)) = <<>>
    \/ \A e \in (NameCloseOf(k) + 1)..Len(template_arg) : template_arg[e] # TOKEN_END

\* list, extract and render all raised the same error and returned nothing.
TemplateFunctionsFailed ==
    /\ pc = "raised"
    /\ listed.error # None
    /\ listed = TemplateOutcome(listed.error, <<>>)
    /\ extracted = TemplateOutcome(listed.error, NoTextBlocks)
    /\ rendered_text = TemplateOutcome(listed.error, <<>>)

\* list, extract and render all returned.
TemplateFunctionsReturned ==
    /\ pc = "returned"
    /\ listed.error = None /\ extracted.error = None /\ rendered_text.error = None

\* C26 (as stated): list, extract and render all fail, with no partial result,
\* whenever some start token of the template has an unterminated or blank name
\* or no end token after it, and all succeed when every start token has a
\* terminated non-blank name and an end token after it.
C26_MalformedFailsWellFormedSucceeds ==
    op = "template_tokens" =>
        IF \E k \in StartTokens : MalformedStartToken(k)
        THEN TemplateFunctionsFailed
        ELSE TemplateFunctionsReturned

\* Between any two start tokens of the template there is a "}}" and, after it,
\* an end token: no start token lies inside the name or content of a region.
NoStartTokenInsideRegion ==
    \A j, k \in StartTokens :
        j < k => \E c \in (j + 1)..(k - 1), e \in (j + 1)..(k - 1) :
                    /\ c < e
                    /\ template_arg[c] = NAME_CLOSE
                    /\ template_arg[e] = TOKEN_END

\* What the code does: the same, for templates in which no start token lies
\* inside a region; in every template a function fails only if some start token
\* is malformed, and the three functions fail or return together.
C26_HoldsOutsideRegions ==
    op = "template_tokens" =>
        /\ TemplateFunctionsFailed \/ TemplateFunctionsReturned
        /\ TemplateFunctionsFailed => \E k \in StartTokens : MalformedStartToken(k)
        /\ NoStartTokenInsideRegion =>
                (TemplateFunctionsFailed <=> \E k \in StartTokens : MalformedStartToken(k))

\* A template that has a start token with a blank name inside the content of
\* a region was parsed without error.
C26_BlankNameInsideRegionAccepted ==
    /\ op = "template_tokens"
    /\ TemplateFunctionsReturned
    /\ \E k \in StartTokens :
            NameCloseOf(k) # 0 /\ StripBlanks(NameSegmentOf(k)) = <<>>

-----------------------------------------------------------------------------
(* Default metric *)

\* All three success flags of trace k are True.
AllFlagsTrue(k) ==
    /\ metric_traces[k].bundle_stable = "True"
    /\ metric_traces[k].executor_stable = "True"
    /\ metric_traces[k].qa_passed = "True"

\* What trace k contributes: the decayed weight when all flags are True, else 0.
Contribution(k) ==
    IF AllFlagsTrue(k)
    THEN CaseScore(metric, OrZero(metric_traces[k].bundle_refinements),
                   OrZero(metric_traces[k].executor_refinements))
    ELSE RatInt(0)

\* The sum of the contributions of the first k traces.
RECURSIVE ContributionSum(_)
ContributionSum(k) ==
    IF k = 0 THEN RatInt(0) ELSE RatAdd(ContributionSum(k - 1), Contribution(k))

\* C27: the score of an empty trace set is 0; the score of n > 0 traces is the
\* sum of their contributions divided by n, where a trace with all three flags
\* True contributes a positive weight and every other trace (a flag False or
\* unset) contributes 0, so that the score is positive exactly when some trace
\* has all three flags True; every score lies in [0, 1].
C27_ScoreIsMeanOfGatedContributions ==
    op = "score" =>
        LET n == Len(metric_traces)
        IN  /\ metric_score.den > 0
            /\ n = 0 => metric_score = RatInt(0)
            /\ n > 0 => RatEq(RatMul(metric_score, RatInt(n)), ContributionSum(n))
            /\ \A k \in 1..n :
                    IF AllFlagsTrue(k) THEN RatLess(RatInt(0), Contribution(k))
                    ELSE RatEq(Contribution(k), RatInt(0))
            /\ RatLess(RatInt(0), metric_score) <=> \E k \in 1..n : AllFlagsTrue(k)
            /\ RatLeq(RatInt(0), metric_score)
            /\ RatLeq(metric_score, RatInt(1))

\* Two traces were scored, the first with qa_passed unset and the other flags
\* True, the second clean: the score is one half.
C27_Witness ==
    /\ op = "score" /\ pc = "returned"
    /\ Len(metric_traces) = 2
    /\ metric_traces[1].bundle_stable = "True"
    /\ metric_traces[1].executor_stable = "True"
    /\ metric_traces[1].qa_passed = None
    /\ AllFlagsTrue(2)
    /\ RatEq(metric_score, Rational(1, 2))

\* The one trace scored, when it is the only one and has all flags True.
SingleSuccess == Len(metric_traces) = 1 /\ AllFlagsTrue(1)

\* C28: the score of a single successful trace with b bundle refinements and e
\* executor refinements is final_weight / (final_weight + architect_weight * b
\* + executor_weight * e); it is less than that with one refinement fewer of
\* either kind; with the default weights it is 4 / (4 + 2b + e), which is 1 at
\* b = e = 0, and one more bundle refinement gives exactly the score that two
\* more executor refinements give.
C28_SuccessfulTraceDecaysWithRefinements ==
    (op = "score" /\ SingleSuccess) =>
        LET b == OrZero(metric_traces[1].bundle_refinements)
            e == OrZero(metric_traces[1].executor_refinements)
            cost == RatAdd(metric.final_weight,
                           RatAdd(RatMul(metric.architect_weight, RatInt(b)),
                                  RatMul(metric.executor_weight, RatInt(e))))
        IN  /\ RatEq(RatMul(metric_score, cost), metric.final_weight)
            /\ b > 0 => RatLess(metric_score, CaseScore(metric, b - 1, e))
            /\ e > 0 => RatLess(metric_score, CaseScore(metric, b, e - 1))
            /\ RatLess(CaseScore(metric, b + 1, e), metric_score)
            /\ RatLess(CaseScore(metric, b, e + 1), metric_score)
            /\ metric = DefaultMetric =>
                /\ metric_score.num * (4 + 2 * b + e) = 4 * metric_score.den
                /\ (b = 0 /\ e = 0) => RatEq(metric_score, RatInt(1))
                /\ RatEq(CaseScore(metric, b + 1, e), CaseScore(metric, b, e + 2))
                /\ b > 0 => RatEq(metric_score, CaseScore(metric, b - 1, e + 2))

\* The default metric scored one successful trace with one bundle refinement
\* and two executor refinements: 4 / (4 + 2 + 2).
C28_Witness ==
    /\ op = "score" /\ pc = "returned"
    /\ metric = DefaultMetric
    /\ SingleSuccess
    /\ metric_traces[1].bundle_refinements = {1}
    /\ metric_traces[1].executor_refinements = {2}
    /\ RatEq(metric_score, Rational(1, 2))

-----------------------------------------------------------------------------
(* Longitudinal acceptance and patience *)

\* MPPAutoAdapterOptimizer.longitudinal_min_delta (mpp_auto_adapter.py 305,
\* 314), which _optimize_template hands to the refiner as min_delta (line 466):
\* the default 0.0 and a threshold of one score unit.  refine does not read it.
ConfiguredMinDeltas == {0, 1}

\* MPPAutoAdapterOptimizer.longitudinal_patience (mpp_auto_adapter.py 304, 313),
\* handed to the refiner as patience (line 465), when it is not None.  refine
\* does not read it.
ConfiguredPatience == {1}

\* A pass of the longitudinal loop scored its candidate and recorded it.
CandidateScored ==
    /\ op = "longitudinal_refine" /\ pc = "loop"
    /\ history' = Append(history, history'[Len(history')])
    /\ Len(history') = Len(history) + 1

\* The candidate of the pass replaced the current / best state.
CandidateTaken ==
    <<best_template, best_score, best_blocks, current_blocks, current_traces>>'
        # <<best_template, best_score, best_blocks, current_blocks, current_traces>>

\* candidate is better than best by more than delta, in the direction of
\* maximize.
BetterByMoreThan(candidate, best, delta) ==
    IF maximize THEN candidate > best + delta ELSE candidate < best - delta

\* C29 (as stated): a candidate becomes the new current / best only if its
\* score is better than the best score so far by more than the configured
\* minimum delta; a candidate that is not taken changes none of best_template,
\* best_score, best_blocks, current_blocks, and the next mutation is called
\* with the unchanged current blocks.
C29_TakenOnlyAboveMinDelta ==
    [][\A delta \in ConfiguredMinDeltas :
        /\ (CandidateScored /\ CandidateTaken) =>
                BetterByMoreThan(history'[Len(history')].score, best_score, delta)
        /\ Len(mutate_log') > Len(mutate_log) =>
                mutate_log'[Len(mutate_log')].blocks = current_blocks]_vars

\* What the code does: a candidate is taken exactly when it is strictly better
\* than the best so far; one that is not taken changes nothing but history and
\* the logs, and every mutation is called with the current blocks, which are
\* the initial blocks or those of the last candidate taken.
C29_TakenIffStrictlyBetter ==
    [][/\ CandidateScored =>
            /\ CandidateTaken => BetterByMoreThan(history'[Len(history')].score,
                                                  best_score, 0)
            /\ BetterByMoreThan(history'[Len(history')].score, best_score, 0) =>
                    /\ best_score' = history'[Len(history')].score
                    /\ best_template' = history'[Len(history')].template
                    /\ current_blocks' = score_log'[Len(score_log')].blocks
                    /\ best_blocks' = current_blocks'
            /\ ~BetterByMoreThan(history'[Len(history')].score, best_score, 0) =>
                    UNCHANGED <<best_template, best_score, best_blocks, current_blocks,
                                current_traces>>
       /\ Len(mutate_log') > Len(mutate_log) =>
            mutate_log'[Len(mutate_log')].blocks = current_blocks]_vars

\* A candidate better than the best by exactly one unit was taken, and a
\* candidate with other blocks was refused before it.
C29_TakenAtDeltaOne ==
    /\ op = "longitudinal_refine" /\ maximize
    /\ Len(history) >= 3
    /\ history[Len(history)].score = history[1].score + 1
    /\ best_score = history[Len(history)].score
    /\ history[2].score <= history[1].score
    /\ score_log[2].blocks # score_log[1].blocks
    /\ mutate_log[2].blocks = score_log[1].blocks

\* The best score after the first k steps of history.
RECURSIVE BestAfter(_)
BestAfter(k) ==
    IF k = 1 THEN history[1].score
    ELSE IF IsBetter(history[k].score, BestAfter(k - 1), maximize) THEN history[k].score
    ELSE BestAfter(k - 1)

\* The number of passes at the end of history that did not improve the best
\* score.
RECURSIVE NonImproving(_)
NonImproving(k) ==
    IF k <= 1 THEN 0
    ELSE IF IsBetter(history[k].score, BestAfter(k - 1), maximize) THEN 0
    ELSE NonImproving(k - 1) + 1

\* C30 (as stated): with a patience limit configured, no pass of the loop
\* starts once the number of consecutive non-improving passes exceeds the
\* limit.
C30_StopsOncePatienceExceeded ==
    [][\A patience \in ConfiguredPatience :
        (op = "longitudinal_refine" /\ Len(mutate_log') > Len(mutate_log)) =>
            NonImproving(Len(history)) <= patience]_vars

\* What the code does: refine returns only after exactly max_iters passes,
\* whatever the scores were.
C30_AlwaysRunsToTheCap ==
    (op = "longitudinal_refine" /\ pc = "returned") =>
        /\ result.iterations = max_iters
        /\ Len(history) = max_iters + 1

\* refine returned after three passes of which none improved the best score.
C30_ThreeNonImprovingPasses ==
    /\ op = "longitudinal_refine" /\ pc = "returned"
    /\ result.iterations = 3
    /\ NonImproving(Len(history)) = 3

-----------------------------------------------------------------------------
(* Longitudinal history, traces and result *)

\* A longitudinal refine call that is in its loop or has returned.
LongitudinalRunning ==
    op = "longitudinal_refine" /\ pc \in {"loop", "returned"}

\* C31: history starts with the iteration-0 entry of the unmutated blocks and
\* gains exactly one entry per pass run, taken or not, numbered 0, 1, ..., n in
\* order; each entry holds the template and the score of the candidate scored
\* in that pass, and the reported iterations is len(history) - 1.
C31_HistoryRecordsEveryPass ==
    /\ LongitudinalRunning =>
        /\ Len(history) = i + 1
        /\ Len(score_log) = i + 1
        /\ Len(mutate_log) = i
        /\ \A k \in 1..Len(history) :
            /\ history[k].iteration = k - 1
            /\ history[k].template = score_log[k].template
            /\ history[k].score = score_log[k].score
        /\ history[1].template = render_mutable_template(base_template, score_log[1].blocks)
        /\ \A n \in DOMAIN extract_mutable_blocks(base_template) :
                n \in DOMAIN score_log[1].blocks
    /\ (op = "longitudinal_refine" /\ pc = "returned") =>
        /\ result.history = history
        /\ result.iterations = Len(result.history) - 1
        /\ result.iterations = i

\* refine returned after three passes: the first candidate was refused, the
\* second taken, and all three are in history.
C31_Witness ==
    /\ op = "longitudinal_refine" /\ pc = "returned" /\ maximize
    /\ result.iterations = 3
    /\ Len(result.history) = 4
    /\ result.history[2].score <= result.history[1].score
    /\ result.history[3].score > result.history[1].score
    /\ result.history[3].template # result.history[1].template

\* The traces that the k-th scoring pass returned (_score, lines 367-383).
TracesOfPass(k) ==
    ScoreOf([kind |-> score_log[k].kind, score |-> score_log[k].score], k).traces

\* The scoring pass, among the first k, whose blocks are the current blocks
\* after it: the baseline or the last candidate taken.
RECURSIVE CurrentPass(_)
CurrentPass(k) ==
    IF k <= 1 THEN 1
    ELSE IF IsBetter(history[k].score, BestAfter(k - 1), maximize) THEN k
    ELSE CurrentPass(k - 1)

\* C32 (as stated): at every pass a mutation function that accepts a third
\* argument is called with the current blocks and the per-case traces of the
\* most recent scoring pass; a two-argument mutation function is called without
\* traces.
C32_MutateGetsMostRecentTraces ==
    op = "longitudinal_refine" =>
        \A k \in 1..Len(mutate_log) :
            /\ mutate_log[k].blocks = score_log[CurrentPass(k)].blocks
            /\ IF mutate_accepts_traces
               THEN mutate_log[k].traces = TracesOfPass(k)
               ELSE mutate_log[k].traces = TracesNotPassed

\* C32 (amended): the traces handed to a three-argument mutation function are
\* those of the scoring pass that scored the current blocks (the baseline or
\* the last candidate taken), not those of a refused candidate; a two-argument
\* mutation function is called without traces.
C32_MutateGetsTracesOfCurrentBlocks ==
    op = "longitudinal_refine" =>
        \A k \in 1..Len(mutate_log) :
            /\ mutate_log[k].blocks = score_log[CurrentPass(k)].blocks
            /\ IF mutate_accepts_traces
               THEN mutate_log[k].traces = TracesOfPass(CurrentPass(k))
               ELSE mutate_log[k].traces = TracesNotPassed

\* The second candidate was taken and the third refused; the fourth mutation
\* was called with the traces of the second candidate's scoring pass.
C32_Witness ==
    /\ op = "longitudinal_refine" /\ mutate_accepts_traces
    /\ Len(mutate_log) = 3 /\ Len(history) >= 3
    /\ CurrentPass(2) = 2 /\ CurrentPass(3) = 2
    /\ score_log[3].kind = "LongitudinalScore"
    /\ mutate_log[2].traces = LongitudinalTraces(2)
    /\ mutate_log[3].traces = LongitudinalTraces(2)
    /\ mutate_log[3].traces # TracesOfPass(3)

-----------------------------------------------------------------------------
(* The default mutation policy *)

\* The keys of the members that occur anywhere in a response.
EmittedKeys(response) ==
    {response[k].key : k \in {j \in 1..Len(response) : response[j].kind = "member"}}

\* C33: the default mutation policy returns only keys of its allow-list,
\* whatever keys the proposing generator emits; under the default allow-list
\* the entry_prompt block of every candidate and of the current blocks equals
\* its initial content after any number of passes.
C33_ProposalWithinAllowList ==
    op = "default_mutator" =>
        /\ \A k \in 1..Len(mutator_calls) :
            /\ DOMAIN mutator_calls[k].proposal \subseteq allowed_keys
            /\ DOMAIN mutator_calls[k].proposal \subseteq EmittedKeys(mutator_calls[k].response)
            /\ allowed_keys = DefaultAllowedKeys =>
                mutator_calls[k].merged["entry_prompt"] = PrimerBlocks["entry_prompt"]
        /\ allowed_keys = DefaultAllowedKeys =>
                mutator_blocks["entry_prompt"] = PrimerBlocks["entry_prompt"]
        /\ DOMAIN mutator_blocks = DOMAIN PrimerBlocks

\* Under the default allow-list the generator emitted an entry_prompt and a
\* strategy_payload; the candidate was taken with the new strategy_payload, and
\* a second pass followed.
C33_Witness ==
    /\ op = "default_mutator" /\ allowed_keys = DefaultAllowedKeys
    /\ Len(mutator_calls) = 2
    /\ "entry_prompt" \in EmittedKeys(mutator_calls[1].response)
    /\ DOMAIN mutator_calls[1].proposal = {"strategy_payload"}
    /\ mutator_calls[2].blocks["strategy_payload"] = "plan"
    /\ mutator_blocks["strategy_payload"] = "plan"
    /\ mutator_blocks["entry_prompt"] = "goal"

\* The response, once its code fences are stripped, is not a JSON value as a
\* whole.
NotWhollyJson(response) == JsonLoadsText(MutatorStripCodeFences(response)).error

\* The part of the response from its first opening to its last closing brace
\* is a JSON object.
HasEmbeddedObject(response) ==
    LET cleaned == MutatorStripCodeFences(response)
    IN  /\ FindOpen(cleaned) # -1 /\ RFindClose(cleaned) > FindOpen(cleaned)
        /\ JsonLoadsText(SubSeq(cleaned, FindOpen(cleaned), RFindClose(cleaned))).type = "dict"

\* C34 (as stated): for a response that is not JSON, or only partially JSON,
\* the default policy returns an empty mapping and does not raise, and with an
\* empty proposal the candidate equals the current blocks.
C34_NonJsonGivesEmptyProposal ==
    op = "default_mutator" =>
        /\ pc # "raised"
        /\ \A k \in 1..Len(mutator_calls) :
            /\ NotWhollyJson(mutator_calls[k].response) =>
                    mutator_calls[k].proposal = NoBlocks
            /\ mutator_calls[k].proposal = NoBlocks =>
                    mutator_calls[k].merged = mutator_calls[k].blocks

\* C34 (amended): the policy never raises on a response; it returns an empty
\* mapping when the response holds no JSON object, neither as a whole nor
\* between its first opening and last closing brace, and with an empty
\* proposal the candidate equals the current blocks; an object embedded in
\* other text is recovered and its allowed keys are proposed.
C34_NoObjectGivesEmptyProposal ==
    op = "default_mutator" =>
        /\ pc # "raised"
        /\ \A k \in 1..Len(mutator_calls) :
            LET call == mutator_calls[k]
                cleaned == MutatorStripCodeFences(call.response)
            IN  /\ (NotWhollyJson(call.response) /\ ~HasEmbeddedObject(call.response)) =>
                        call.proposal = NoBlocks
                /\ JsonLoadsText(cleaned).type = "list" => call.proposal = NoBlocks
                /\ (NotWhollyJson(call.response) /\ HasEmbeddedObject(call.response)) =>
                        DOMAIN call.proposal =
                            {n \in allowed_keys \cap EmittedKeys(call.response) :
                                \E j \in 1..Len(call.response) :
                                    /\ call.response[j].key = n
                                    /\ call.response[j].value.type # "null"}
                /\ call.proposal = NoBlocks => call.merged = call.blocks

\* A response cut off before its closing brace gave an empty proposal and a
\* candidate equal to the current blocks; an object inside other text gave a
\* proposal that changed a block.
C34_Witness ==
    /\ op = "default_mutator" /\ Len(mutator_calls) = 2
    /\ mutator_calls[1].response[1].kind = "{"
    /\ \A k \in 1..Len(mutator_calls[1].response) : mutator_calls[1].response[k].kind # "}"
    /\ mutator_calls[1].proposal = NoBlocks
    /\ mutator_calls[1].merged = mutator_calls[1].blocks
    /\ NotWhollyJson(mutator_calls[2].response)
    /\ HasEmbeddedObject(mutator_calls[2].response)
    /\ mutator_calls[2].merged["architect_primer"] = "found"

-----------------------------------------------------------------------------
(* The text-generation backend client *)

\* Attempt j belongs to the same request (the same _post call) as the attempt
\* before it: the models tried are distinct.
SamePost(j) == j > 1 /\ post_log[j].model = post_log[j - 1].model

\* Attempt j is followed by another attempt of the same request, made already
\* or about to be made.
Followed(j) ==
    \/ j < Len(post_log) /\ post_log[j + 1].model = post_log[j].model
    \/ j = Len(post_log) /\ pc = "loop" /\ models_to_try[model_index] = post_log[j].model

\* The attempt failed with a retryable status (408, 409, 429 or >= 500) or a
\* network error.
RetryableFailure(e) ==
    \/ e.outcome.kind = "network"
    \/ e.outcome.kind = "http" /\ (e.outcome.code \in {408, 409, 429} \/ e.outcome.code >= 500)

\* The delay slept after attempt j.
DelayAfter(j) == CHOOSE d \in post_log[j].slept : TRUE

\* base_delay * 2^k, or the Retry-After of the response when that is a larger
\* number of seconds.
ExpectedDelay(e) ==
    LET backoff == base_delay * 2^(e.attempt)
    IN  IF e.outcome.header.present /\ e.outcome.header.numeric
            /\ e.outcome.header.seconds > backoff
        THEN e.outcome.header.seconds ELSE backoff

\* What C35 says of attempt j, the order of the delays apart.
RetryRule(j) ==
    LET e == post_log[j]
    IN  /\ e.attempt <= retries
        /\ e.attempt = IF SamePost(j) THEN post_log[j - 1].attempt + 1 ELSE 0
        /\ (RetryableFailure(e) /\ e.attempt < retries) <=> Followed(j)
        /\ Followed(j) <=> e.slept # {}
        /\ e.slept # {} => e.slept = {ExpectedDelay(e)}
        /\ (e.outcome.kind = "http" /\ ~RetryableFailure(e) /\ e.outcome.code # 403) =>
                /\ j = Len(post_log) /\ pc = "raised"
                /\ completion = Completion("raised", e.model,
                                           BackendError("RuntimeError", e.outcome.code))
        /\ (e.outcome.kind # "ok" /\ e.outcome.code # 403 /\ e.attempt = retries) =>
                /\ j = Len(post_log) /\ pc = "raised"
                /\ completion = Completion("raised", e.model,
                                           BackendError("RuntimeError", e.outcome.code))

\* C35 (as stated): a request makes at most retries + 1 attempts; a retryable
\* failure on attempt k < retries is followed by another attempt after
\* base_delay * 2^k, or the server's Retry-After when larger, so the delays of
\* a request never decrease; a non-retryable status raises at once, and the
\* failure of the last attempt is raised.
C35_RetriesWithGrowingDelays ==
    op = "create_chat_completion" =>
        \A j \in 1..Len(post_log) :
            /\ RetryRule(j)
            /\ (SamePost(j) /\ post_log[j].slept # {}) => DelayAfter(j) >= DelayAfter(j - 1)

\* C35 (amended): as stated, except for the order of the delays: each delay is at
\* least base_delay * 2^k, a floor that doubles from attempt to attempt, but a
\* delay stretched by a Retry-After may be followed by a shorter one.
C35_RetriesWithBackoffFloor ==
    op = "create_chat_completion" =>
        \A j \in 1..Len(post_log) :
            /\ RetryRule(j)
            /\ post_log[j].slept # {} =>
                /\ DelayAfter(j) >= base_delay * 2^(post_log[j].attempt)
                /\ SamePost(j) =>
                    base_delay * 2^(post_log[j].attempt) =
                        2 * base_delay * 2^(post_log[j - 1].attempt)

\* With two retries: a 429 with Retry-After 3 was followed after 3 seconds by a
\* 503, that after 2 seconds by a network error, and that was raised.
C35_Witness ==
    /\ op = "create_chat_completion" /\ pc = "raised" /\ retries = 2
    /\ Len(post_log) = 3
    /\ post_log[1].outcome.code = 429 /\ post_log[1].slept = {3}
    /\ post_log[2].outcome.code = 503 /\ post_log[2].slept = {2}
    /\ post_log[3].outcome.kind = "network" /\ post_log[3].slept = {}
    /\ completion.error.type = "RuntimeError"

\* The position of a model in models_to_try.
ModelPosition(model) == CHOOSE k \in 1..Len(models_to_try) : models_to_try[k] = model

\* C36: a 403 is never retried on the same model; the primary and then the
\* distinct fallback models are tried in the order given, the next one only
\* after an authorization failure; the first successful response is returned,
\* any other error is raised at once without trying further models, and the
\* last authorization error is raised when every model was refused.
C36_FallbackOnlyOnForbidden ==
    op = "create_chat_completion" =>
        /\ models_to_try \in {<<>>, <<ModelA>>, <<ModelA, ModelB>>}
        /\ \A j \in 1..Len(post_log) :
            LET e == post_log[j]
            IN  /\ e.model \in {models_to_try[k] : k \in 1..Len(models_to_try)}
                /\ j = 1 => e.model = models_to_try[1]
                /\ (j > 1 /\ ~SamePost(j)) =>
                        /\ post_log[j - 1].outcome.code = 403
                        /\ ModelPosition(e.model) = ModelPosition(post_log[j - 1].model) + 1
                /\ e.outcome.code = 403 =>
                        /\ e.slept = {}
                        /\ \A h \in (j + 1)..Len(post_log) : post_log[h].model # e.model
                        /\ IF ModelPosition(e.model) < Len(models_to_try)
                           THEN /\ pc # "raised" \/ j < Len(post_log)
                                /\ j = Len(post_log) =>
                                        models_to_try[model_index] =
                                            models_to_try[ModelPosition(e.model) + 1]
                           ELSE /\ j = Len(post_log) /\ pc = "raised"
                                /\ completion = Completion("raised", e.model,
                                        BackendError("LangdockForbiddenError", 403))
                                /\ last_forbidden = completion.error
                /\ e.outcome.kind = "ok" =>
                        /\ j = Len(post_log) /\ pc = "returned"
                        /\ completion = Completion("returned", e.model, NoBackendError)
                /\ (e.outcome.kind # "ok" /\ e.outcome.code # 403 /\ e.slept = {}) =>
                        /\ j = Len(post_log) /\ pc = "raised"
                        /\ completion.error = BackendError("RuntimeError", e.outcome.code)
        /\ pc = "returned" => post_log[Len(post_log)].outcome.kind = "ok"
        /\ (pc = "raised" /\ models_to_try # <<>>) =>
                post_log[Len(post_log)].outcome.kind # "ok"

\* The first model was refused after one retry and the second answered; its
\* response was returned.
C36_Witness ==
    /\ op = "create_chat_completion" /\ pc = "returned"
    /\ models_to_try = <<ModelA, ModelB>>
    /\ Len(post_log) = 3
    /\ post_log[1].model = ModelA /\ post_log[1].outcome.code = 503
    /\ post_log[2].model = ModelA /\ post_log[2].outcome.code = 403
    /\ post_log[3].model = ModelB /\ post_log[3].outcome.kind = "ok"
    /\ completion.model = ModelB

\* Every model was refused: the authorization error of the last one is raised.
C36_WitnessAllRefused ==
    /\ op = "create_chat_completion" /\ pc = "raised"
    /\ models_to_try = <<ModelA, ModelB>>
    /\ Len(post_log) = 2
    /\ post_log[1].outcome.code = 403 /\ post_log[2].outcome.code = 403
    /\ completion.error.type = "LangdockForbiddenError"

-----------------------------------------------------------------------------
(* The longitudinal result *)

\* The position of the earliest entry of history with the highest score.
EarliestMaximum ==
    CHOOSE k \in 1..Len(history) :
        /\ \A j \in 1..Len(history) : history[j].score <= history[k].score
        /\ \A j \in 1..(k - 1) : history[j].score < history[k].score

\* C37: in maximize mode the best score is at every moment the maximum over
\* the history so far, so it never decreases, and the best template is that of
\* the earliest entry with that score; refine returns them, with the blocks
\* that entry was rendered from.  A single candidate that scores strictly
\* higher than the baseline is the result.
C37_ResultIsBestSeen ==
    (LongitudinalRunning /\ maximize) =>
        /\ best_score = history[EarliestMaximum].score
        /\ best_template = history[EarliestMaximum].template
        /\ best_blocks = score_log[EarliestMaximum].blocks
        /\ \A k \in 1..Len(history) : history[k].score <= best_score
        /\ pc = "returned" =>
            /\ result.score = best_score
            /\ result.template = best_template
            /\ result.blocks = best_blocks
            /\ (Len(history) = 2 /\ history[2].score > history[1].score) =>
                /\ result.template = history[2].template
                /\ result.score = history[2].score
                /\ result.blocks = score_log[2].blocks

\* A run of one pass whose candidate, with a new text for the block, scored
\* higher than the baseline: the result is the candidate.
C37_Witness ==
    /\ op = "longitudinal_refine" /\ pc = "returned" /\ maximize
    /\ result.iterations = 1
    /\ history[2].score > history[1].score
    /\ result.template = history[2].template
    /\ result.template # history[1].template
    /\ result.blocks["block"] = "good"

\* Two entries share the highest score and differ in their template: the
\* result is the earlier one.
C37_WitnessTie ==
    /\ op = "longitudinal_refine" /\ pc = "returned" /\ maximize
    /\ \E k \in 1..Len(history) :
        /\ k > EarliestMaximum
        /\ history[k].score = result.score
        /\ history[k].template # result.template

\* C40: on return from refine, rendering the original template with
\* result.blocks gives result.template, result.blocks has a value for every
\* block name extracted from the original template, and result.blocks is the
\* mapping that was scored to obtain result.score.
C40_ResultBlocksRenderResultTemplate ==
    (op = "longitudinal_refine" /\ pc = "returned") =>
        /\ DOMAIN extract_mutable_blocks(base_template) \subseteq DOMAIN result.blocks
        /\ Len(result.template) = Len(base_template)
        /\ \A k \in 1..Len(base_template) :
            result.template[k] =
                IF base_template[k].kind = "region"
                THEN result.blocks[base_template[k].name]
                ELSE base_template[k].content
        /\ render_mutable_template(base_template, result.blocks) = result.template
        /\ \E k \in 1..Len(score_log) :
            /\ score_log[k].blocks = result.blocks
            /\ score_log[k].template = result.template
            /\ score_log[k].score = result.score
            /\ score_log[k].kind # "raise"

\* refine returned blocks that differ from the template's own: an override
\* replaced by a candidate that was taken, next to a block the template does
\* not have.
C40_Witness ==
    /\ op = "longitudinal_refine" /\ pc = "returned"
    /\ result.iterations >= 2
    /\ score_log[1].blocks["block"] = "seed"
    /\ DOMAIN result.blocks = {"block", "extra"}
    /\ result.blocks["block"] = "good"
    /\ result.template # history[1].template

-----------------------------------------------------------------------------
(* The audit record and the gate of the vertical loops *)

\* C38: on return from refine or execute, steps holds exactly one VerticalStep
\* per iteration performed in the call, in order, numbered 1..iterations, so
\* len(steps) equals the reported iterations, the iteration on which the loop
\* ended included.
C38_OneStepPerIteration ==
    (op \in {"refine", "execute"} /\ pc = "returned") =>
        /\ Len(result.steps) = result.iterations
        /\ \A k \in 1..Len(result.steps) : result.steps[k].iteration = k

\* C39: in open-world execute, every returned result with stable = TRUE also
\* has qa_passed = TRUE: no response is reported stable when the QA verdict
\* for it was fail.
C39_OpenWorldStableMeansQAPassed ==
    (op = "execute" /\ pc = "returned" /\ open_world /\ result.stable) =>
        result.qa_passed = Bool(TRUE)

\* What the code does: refine and closed-world execute record every
\* iteration; open-world execute leaves the loop on a pass verdict before the
\* step of that iteration is appended, so steps is one short of iterations.
C38_PassingIterationNotRecorded ==
    (op \in {"refine", "execute"} /\ pc = "returned") =>
        /\ \A k \in 1..Len(result.steps) : result.steps[k].iteration = k
        /\ Len(result.steps) =
            IF op = "execute" /\ open_world /\ result.qa_passed = Bool(TRUE)
            THEN result.iterations - 1
            ELSE result.iterations

\* What the code does: an open-world result is stable when the verdict was pass
\* or when the response repeated the one before it, whatever the verdict.
C39_OpenWorldStableOnRepeat ==
    (op = "execute" /\ pc = "returned" /\ open_world /\ result.stable
        /\ result.qa_passed # Bool(TRUE)) =>
        /\ Len(result.steps) >= 2
        /\ result.iterations = Len(result.steps)
        /\ NormalizeResponseForStability(result.steps[Len(result.steps)].output)
             = NormalizeResponseForStability(result.steps[Len(result.steps) - 1].output)
        /\ result.steps[Len(result.steps)].qa_passed = Bool(FALSE)

=============================================================================
